---- MODULE Spec2Model ----
(***************************************************************************)
(* Model of the chapter-completion estimator                               *)
(* (app/services/completion_service.py), of the hybrid quiz grader         *)
(* (app/services/grading_service.py, with the semantic grader of           *)
(* app/services/gemini_service.py), of the rate limiter                    *)
(* (app/utils/rate_limiter.py), of quiz generation (app/api/quizzes.py     *)
(* with app/utils/cache.py) and of the progress update                     *)
(* (app/api/chapters.py).                                                  *)
(*                                                                         *)
(* Python floats are modelled as exact rationals <<n, d>> with d > 0 in    *)
(* lowest terms.  On the input grids used below the binary64 results of    *)
(* the code and the exact rationals give the same comparisons.             *)
(***************************************************************************)
EXTENDS Integers, Sequences, FiniteSets, TLC

(***************************************************************************)
(* Bounds of the model.                                                    *)
(***************************************************************************)
MaxTimeSteps == 10
MaxScrollSteps == 5
MaxSelections == 5
MaxPages == 2
MaxQuestions == 2
RequestsPerMinute == 1
RequestsPerHour == 2
MaxSkew == 1
MaxRequests == 4

(***************************************************************************)
(* State.  completion: the call of calculate_completion in progress, with  *)
(* its inputs and results.  The next variables are the locals of the       *)
(* grade_quiz call in progress (g_pc is its position), the tuple it        *)
(* returns (result) or the exception that escapes it (exception), and      *)
(* records of what happened: graded, the (score, feedback, is_correct)     *)
(* tuple obtained for each question, oracle_calls, the calls made to the   *)
(* semantic grader, and previous, what an earlier grading of the same      *)
(* (questions, answers) pair returned.  The services share no state.       *)
(***************************************************************************)
VARIABLES completion, g_pc, questions, answers, idx, breakdown, total_score,
          max_score, topic_performance, graded, oracle_calls, result,
          exception, previous,
          rl_clock, minute_tracker, hour_tracker, rl_accepted, rl_last,
          rl_skewed,
          q_cache, q_db, q_gen_calls, q_requests, q_first, q_last,
          user_progress, up_latest, up_last

cvars == << completion >>

gvars == << g_pc, questions, answers, idx, breakdown, total_score, max_score,
            topic_performance, graded, oracle_calls, result, exception,
            previous >>

\* the rate limiter: the clock (time.time()), the two trackers, and records of
\* what happened: the timestamps of the accepted requests of each client, the
\* last request handled, and whether a check ever saw the clock advance
rvars == << rl_clock, minute_tracker, hour_tracker, rl_accepted, rl_last,
            rl_skewed >>

\* quiz generation: the Redis cache, the quizzes table, and records of what
\* happened: the calls made to the quiz generator, the requests handled, the
\* first quiz served for each parameter tuple, and the last response
qvars == << q_cache, q_db, q_gen_calls, q_requests, q_first, q_last >>

\* chapter progress: the user_progress table, and records of what happened:
\* the latest update_progress request of each (user, chapter) pair and the
\* last response
uvars == << user_progress, up_latest, up_last >>

vars == << completion, g_pc, questions, answers, idx, breakdown, total_score,
           max_score, topic_performance, graded, oracle_calls, result,
           exception, previous,
           rl_clock, minute_tracker, hour_tracker, rl_accepted, rl_last,
           rl_skewed,
           q_cache, q_db, q_gen_calls, q_requests, q_first, q_last,
           user_progress, up_latest, up_last >>

(***************************************************************************)
(* Exact rational arithmetic standing for Python float arithmetic.         *)
(***************************************************************************)
Abs(x) == IF x < 0 THEN -x ELSE x

RECURSIVE GCD(_, _)
GCD(a, b) == IF b = 0 THEN a ELSE GCD(b, a % b)

Rat(n, d) ==
    LET s == IF d < 0 THEN -1 ELSE 1
        g == GCD(Abs(n), Abs(d))
    IN  << (s * n) \div g, (s * d) \div g >>

RInt(n) == << n, 1 >>
RAdd(a, b) == Rat(a[1] * b[2] + b[1] * a[2], a[2] * b[2])
RSub(a, b) == Rat(a[1] * b[2] - b[1] * a[2], a[2] * b[2])
RMul(a, b) == Rat(a[1] * b[1], a[2] * b[2])
RDiv(a, b) == Rat(a[1] * b[2], a[2] * b[1])
RLe(a, b) == a[1] * b[2] <= b[1] * a[2]
RLt(a, b) == a[1] * b[2] < b[1] * a[2]
RGe(a, b) == RLe(b, a)
RMin(a, b) == IF RLt(b, a) THEN b ELSE a
RMax(a, b) == IF RLt(a, b) THEN b ELSE a
RAbs(a) == << Abs(a[1]), a[2] >>

Zero == RInt(0)
One == RInt(1)

(***************************************************************************)
(* Python strings are sequences of one-character strings.                  *)
(***************************************************************************)
UpperCase == << "A", "B", "C", "D", "E", "F", "G", "H", "I", "J", "K", "L", "M",
                "N", "O", "P", "Q", "R", "S", "T", "U", "V", "W", "X", "Y", "Z" >>
LowerCase == << "a", "b", "c", "d", "e", "f", "g", "h", "i", "j", "k", "l", "m",
                "n", "o", "p", "q", "r", "s", "t", "u", "v", "w", "x", "y", "z" >>
Digits == << "0", "1", "2", "3", "4", "5", "6", "7", "8", "9" >>

IndexIn(c, seq) ==
    IF \E i \in 1 .. Len(seq) : seq[i] = c
    THEN CHOOSE i \in 1 .. Len(seq) : seq[i] = c
    ELSE 0

\* ord(c) - ord('A') for a capital letter c
LetterIndex(c) == IndexIn(c, UpperCase) - 1

UpperChar(c) ==
    IF IndexIn(c, LowerCase) > 0 THEN UpperCase[IndexIn(c, LowerCase)] ELSE c
LowerChar(c) ==
    IF IndexIn(c, UpperCase) > 0 THEN LowerCase[IndexIn(c, UpperCase)] ELSE c

\* str.upper(), str.lower()
StrUpper(s) == [ i \in 1 .. Len(s) |-> UpperChar(s[i]) ]
StrLower(s) == [ i \in 1 .. Len(s) |-> LowerChar(s[i]) ]

IsSpace(c) == c = " "
IsDigit(c) == IndexIn(c, Digits) > 0
DigitValue(c) == IndexIn(c, Digits) - 1

\* str.strip()
RECURSIVE LStrip(_)
LStrip(s) ==
    IF s # << >> /\ IsSpace(Head(s)) THEN LStrip(Tail(s)) ELSE s
RECURSIVE RStrip(_)
RStrip(s) ==
    IF s # << >> /\ IsSpace(s[Len(s)])
    THEN RStrip(SubSeq(s, 1, Len(s) - 1))
    ELSE s
StrStrip(s) == RStrip(LStrip(s))

\* str.split(): the maximal runs of non-space characters, in order
RECURSIVE SplitFrom(_, _, _)
SplitFrom(s, word, acc) ==
    IF s = << >>
    THEN IF word = << >> THEN acc ELSE Append(acc, word)
    ELSE IF IsSpace(Head(s))
         THEN SplitFrom(Tail(s), << >>,
                        IF word = << >> THEN acc ELSE Append(acc, word))
         ELSE SplitFrom(Tail(s), Append(word, Head(s)), acc)
StrSplit(s) == SplitFrom(s, << >>, << >>)

\* needle in hay
StrContains(hay, needle) ==
    \E i \in 1 .. (Len(hay) - Len(needle) + 1) :
        SubSeq(hay, i, i + Len(needle) - 1) = needle

\* str(n) for an integer n
RECURSIVE NatStr(_)
NatStr(n) ==
    IF n < 10 THEN << Digits[n + 1] >>
    ELSE Append(NatStr(n \div 10), Digits[(n % 10) + 1])
IntStr(n) == IF n < 0 THEN << "-" >> \o NatStr(-n) ELSE NatStr(n)

\* the decimal digits of the fraction n/d < 1 (d a divisor of a power of 10)
RECURSIVE FracDigits(_, _)
FracDigits(n, d) ==
    IF n = 0 THEN << >>
    ELSE << Digits[((10 * n) \div d) + 1] >> \o FracDigits((10 * n) % d, d)

\* str(x) for a float x: always with a fractional part ("100.0", "-2.5")
FloatStr(x) ==
    LET a == Abs(x[1])
        whole == a \div x[2]
        frac == a % x[2]
    IN  (IF x[1] < 0 THEN << "-" >> ELSE << >>)
        \o NatStr(whole) \o << "." >>
        \o (IF frac = 0 THEN << "0" >> ELSE FracDigits(frac, x[2]))

RECURSIVE DigitsValue(_, _)
DigitsValue(s, acc) ==
    IF s = << >> THEN acc ELSE DigitsValue(Tail(s), 10 * acc + DigitValue(Head(s)))

RECURSIVE Pow10(_)
Pow10(k) == IF k = 0 THEN 1 ELSE 10 * Pow10(k - 1)

AllDigits(s) == \A i \in 1 .. Len(s) : IsDigit(s[i])

(***************************************************************************)
(* float(s) for a string s: surrounding blanks are ignored, then an        *)
(* optional sign, digits, and an optional point with digits.  (Exponents,  *)
(* "inf" and "nan" are not in the alphabet of the submissions modelled.)   *)
(* The result is [ok |-> FALSE] for a ValueError.                          *)
(***************************************************************************)
ParseDecimal(negative, whole, frac) ==
    IF AllDigits(whole) /\ AllDigits(frac) /\ Len(whole) + Len(frac) > 0
    THEN [ ok |-> TRUE,
           v |-> Rat((IF negative THEN -1 ELSE 1) * DigitsValue(whole \o frac, 0),
                     Pow10(Len(frac))) ]
    ELSE [ ok |-> FALSE, v |-> Zero ]

ParseAtPoint(negative, body, dot) ==
    IF dot = 0
    THEN ParseDecimal(negative, body, << >>)
    ELSE ParseDecimal(negative, SubSeq(body, 1, dot - 1),
                      SubSeq(body, dot + 1, Len(body)))

ParseUnsigned(negative, body) ==
    ParseAtPoint(negative, body, IndexIn(".", body))

ParseStripped(t) ==
    IF t # << >> /\ Head(t) \in { "+", "-" }
    THEN ParseUnsigned(Head(t) = "-", Tail(t))
    ELSE ParseUnsigned(FALSE, t)

ParseFloat(s) == ParseStripped(StrStrip(s))

(***************************************************************************)
(* Python values that occur as answers and reference answers: None, int,   *)
(* float and str.  n/d is the number, s the text.                          *)
(***************************************************************************)
PyNone == [ t |-> "none", n |-> 0, d |-> 1, s |-> << >> ]
PyInt(k) == [ t |-> "int", n |-> k, d |-> 1, s |-> << >> ]
PyFloat(x) == [ t |-> "float", n |-> x[1], d |-> x[2], s |-> << >> ]
PyString(x) == [ t |-> "str", n |-> 0, d |-> 1, s |-> x ]

IsNumber(v) == v.t \in { "int", "float" }
NumberOf(v) == << v.n, v.d >>

\* a == b
PyEq(a, b) ==
    IF IsNumber(a) /\ IsNumber(b)
    THEN a.n * b.d = b.n * a.d
    ELSE a = b

\* bool(v)
Truthy(v) ==
    CASE v.t = "none" -> FALSE
      [] v.t = "str" -> v.s # << >>
      [] OTHER -> v.n # 0

\* str(v)
PyStr(v) ==
    CASE v.t = "none" -> << "N", "o", "n", "e" >>
      [] v.t = "int" -> IntStr(v.n)
      [] v.t = "float" -> FloatStr(NumberOf(v))
      [] OTHER -> v.s

WithValueError(p) ==
    [ ok |-> p.ok, v |-> p.v, exc |-> IF p.ok THEN "" ELSE "ValueError" ]

\* float(v): [ok, v] on success, [ok |-> FALSE, exc] with the exception raised
PyFloatOf(v) ==
    CASE v.t = "none" -> [ ok |-> FALSE, v |-> Zero, exc |-> "TypeError" ]
      [] v.t = "str" -> WithValueError(ParseFloat(v.s))
      [] OTHER -> [ ok |-> TRUE, v |-> NumberOf(v), exc |-> "" ]

(***************************************************************************)
(* GeminiService.grade_answer, the semantic grader.  api is the outcome of *)
(* the call to the generative model: a score parsed from its reply, or a   *)
(* failure (no file, timeout, quota, malformed reply), which the method    *)
(* catches itself.  The handler calls .lower() on both answers, so it      *)
(* raises AttributeError when one of them is not a str.                    *)
(***************************************************************************)
Feedback(msg, arg) == [ msg |-> msg, arg |-> arg ]

ApiScore(x) == [ ok |-> TRUE, score |-> x ]
ApiFailure == [ ok |-> FALSE, score |-> Zero ]

Returned(score, feedback) ==
    [ raised |-> FALSE, exc |-> "", score |-> score, feedback |-> feedback ]
Raising(exc) ==
    [ raised |-> TRUE, exc |-> exc, score |-> Zero,
      feedback |-> Feedback("", << >>) ]

MutGradeAnswerNoClamp(correct_answer, user_answer, api) ==
    IF api.ok
    THEN Returned(api.score, Feedback("<feedback of the model>", << >>))
    ELSE Returned(Rat(1, 2),
                  Feedback("Partial credit - please review the concept", << >>))

MutGradeAnswerReraises(correct_answer, user_answer, api) ==
    IF api.ok
    THEN Returned(RMax(Zero, RMin(One, api.score)),
                  Feedback("<feedback of the model>", << >>))
    ELSE Raising("Exception")

GradeAnswer(correct_answer, user_answer, api) ==
    IF api.ok
    THEN Returned(RMax(Zero, RMin(One, api.score)),
                  Feedback("<feedback of the model>", << >>))
    ELSE IF user_answer.t # "str" \/ correct_answer.t # "str"
         THEN Raising("AttributeError")
         ELSE IF StrStrip(StrLower(user_answer.s))
                    = StrStrip(StrLower(correct_answer.s))
              THEN Returned(One, Feedback("Correct answer", << >>))
              ELSE Returned(Rat(1, 2),
                       Feedback("Partial credit - please review the concept",
                                << >>))

(***************************************************************************)
(* GradingService.  The result of grading one question: the tuple          *)
(* (score, feedback, is_correct) or the exception that escapes, and the    *)
(* calls made to grade_answer, each with the outcome (api) it met.         *)
(***************************************************************************)
NUMERICAL_TOLERANCE == Rat(2, 100)

Graded(score, feedback, is_correct, calls) ==
    [ raised |-> FALSE, exc |-> "", score |-> score, feedback |-> feedback,
      is_correct |-> is_correct, calls |-> calls ]
Escaping(exc, calls) ==
    [ raised |-> TRUE, exc |-> exc, score |-> Zero,
      feedback |-> Feedback("", << >>), is_correct |-> FALSE, calls |-> calls ]

OracleCall(question, correct_answer, user_answer, question_type, api) ==
    [ q_id |-> question.q_id,
      question |-> question.question,
      correct_answer |-> correct_answer,
      user_answer |-> user_answer,
      question_type |-> question_type,
      topic |-> IF question.topic = << >> THEN "general" ELSE question.topic[1],
      api |-> api ]

MutIncorrectMcqNoLowerBound(correct_answer, options) ==
    IF ~IsNumber(correct_answer) \/ options.t = "none"
    THEN Escaping("TypeError", << >>)
    ELSE IF correct_answer.n >= Len(options.v) \/ correct_answer.n < -Len(options.v)
    THEN Graded(Zero, Feedback("Incorrect. Correct answer: ",
                               << "U", "n", "k", "n", "o", "w", "n" >>),
                FALSE, << >>)
    ELSE Graded(Zero, Feedback("Incorrect. Correct answer: ",
                               options.v[((correct_answer.n + Len(options.v))
                                          % Len(options.v)) + 1]),
                FALSE, << >>)

\* options[correct_answer] if 0 <= correct_answer < len(options) else "Unknown"
IncorrectMcq(correct_answer, options) ==
    IF ~IsNumber(correct_answer)
    THEN Escaping("TypeError", << >>)
    ELSE IF correct_answer.n < 0
    THEN Graded(Zero, Feedback("Incorrect. Correct answer: ",
                               << "U", "n", "k", "n", "o", "w", "n" >>),
                FALSE, << >>)
    ELSE IF options.t = "none"
    THEN Escaping("TypeError", << >>)
    ELSE IF ~RLt(NumberOf(correct_answer), RInt(Len(options.v)))
    THEN Graded(Zero, Feedback("Incorrect. Correct answer: ",
                               << "U", "n", "k", "n", "o", "w", "n" >>),
                FALSE, << >>)
    ELSE IF correct_answer.t # "int"
    THEN Escaping("TypeError", << >>)
    ELSE Graded(Zero, Feedback("Incorrect. Correct answer: ",
                               options.v[correct_answer.n + 1]),
                FALSE, << >>)

MutNormalizeLetterOneBased(user_answer) ==
    IF /\ user_answer.t = "str"
       /\ StrUpper(user_answer.s)
              \in { << "A" >>, << "B" >>, << "C" >>, << "D" >> }
    THEN PyInt(LetterIndex(StrUpper(user_answer.s)[1]) + 1)
    ELSE user_answer

\* a single letter A-D (in either case) becomes its index
NormalizeLetter(user_answer) ==
    IF /\ user_answer.t = "str"
       /\ StrUpper(user_answer.s)
              \in { << "A" >>, << "B" >>, << "C" >>, << "D" >> }
    THEN PyInt(LetterIndex(StrUpper(user_answer.s)[1]))
    ELSE user_answer

\* _grade_mcq
GradeMcq(question, user_answer) ==
    IF PyEq(NormalizeLetter(user_answer), question.correct_answer)
    THEN Graded(One, Feedback("Correct!", << >>), TRUE, << >>)
    ELSE IncorrectMcq(question.correct_answer, question.options)

\* the tiers of _fallback_keyword_grading
KeywordTier(score, calls) ==
    IF RGe(score, Rat(7, 10))
    THEN Graded(score, Feedback("Good answer covering key points", << >>),
                TRUE, calls)
    ELSE IF RGe(score, Rat(4, 10))
    THEN Graded(score,
                Feedback("Partial answer, missing some key concepts", << >>),
                FALSE, calls)
    ELSE Graded(score, Feedback("Answer missing most key concepts", << >>),
                FALSE, calls)

KeywordScore(keywords, user_answer_lower, calls) ==
    IF Cardinality(keywords) = 0
    THEN Graded(Rat(1, 2), Feedback("Unable to grade automatically", << >>),
                FALSE, calls)
    ELSE KeywordTier(
             Rat(Cardinality({ k \in keywords :
                                 StrContains(user_answer_lower, k) }),
                 Cardinality(keywords)),
             calls)

\* set(word for word in correct_answer.split() if len(word) > 3)
Keywords(words) ==
    { words[i] : i \in { j \in 1 .. Len(words) : Len(words[j]) > 3 } }

\* _fallback_keyword_grading
FallbackKeywordGrading(question, user_answer, calls) ==
    IF question.correct_answer.t # "str"
    THEN Escaping("AttributeError", calls)
    ELSE KeywordScore(Keywords(StrSplit(StrLower(question.correct_answer.s))),
                      StrLower(user_answer.s), calls)

MutShortAnswerLenient(question, user_answer, r, calls) ==
    IF r.raised
    THEN FallbackKeywordGrading(question, user_answer, calls)
    ELSE Graded(r.score, r.feedback, RGe(r.score, Rat(1, 2)), calls)

\* _grade_short_answer, from the call of grade_answer on
ShortAnswerGraded(question, user_answer, r, calls) ==
    IF r.raised
    THEN FallbackKeywordGrading(question, user_answer, calls)
    ELSE Graded(r.score, r.feedback, RGe(r.score, Rat(7, 10)), calls)

MutShortAnswerNoEmptyCheck(question, user_answer, api) ==
    ShortAnswerGraded(
        question, user_answer,
        GradeAnswer(question.correct_answer,
                    IF user_answer.t = "str" THEN user_answer
                    ELSE PyString(PyStr(user_answer)), api),
        << OracleCall(question, question.correct_answer, user_answer,
                      "short", api) >>)

\* _grade_short_answer
GradeShortAnswer(question, user_answer, api) ==
    IF ~Truthy(user_answer)
    THEN Graded(Zero, Feedback("No answer provided", << >>), FALSE, << >>)
    ELSE IF user_answer.t # "str"
    THEN Escaping("AttributeError", << >>)
    ELSE IF StrStrip(user_answer.s) = << >>
    THEN Graded(Zero, Feedback("No answer provided", << >>), FALSE, << >>)
    ELSE ShortAnswerGraded(
             question, user_answer,
             GradeAnswer(question.correct_answer, user_answer, api),
             << OracleCall(question, question.correct_answer, user_answer,
                           "short", api) >>)

MutInvalidNumericalRaises(question, calls) == Escaping("ValueError", calls)

\* the except clause of _grade_numerical
InvalidNumerical(question, calls) ==
    Graded(Zero,
           Feedback("Invalid numerical format. Expected: ",
                    PyStr(question.correct_answer)),
           FALSE, calls)

\* _grade_numerical, from the call of grade_answer on
NumericalGraded(question, r, calls) ==
    IF r.raised
    THEN IF r.exc \in { "ValueError", "TypeError" }
         THEN InvalidNumerical(question, calls)
         ELSE Escaping(r.exc, calls)
    ELSE Graded(r.score, r.feedback, RGe(r.score, Rat(7, 10)), calls)

NumericalOutside(question, correct_str, user_str, api) ==
    NumericalGraded(question,
                    GradeAnswer(correct_str, user_str, api),
                    << OracleCall(question, correct_str, user_str,
                                  "numerical", api) >>)

MutWithinToleranceExclusive(correct_answer, user_answer_float, tolerance) ==
    /\ RLt(RSub(correct_answer, tolerance), user_answer_float)
    /\ RLt(user_answer_float, RAdd(correct_answer, tolerance))

\* lower_bound <= user_answer_float <= upper_bound
WithinTolerance(correct_answer, user_answer_float, tolerance) ==
    /\ RLe(RSub(correct_answer, tolerance), user_answer_float)
    /\ RLe(user_answer_float, RAdd(correct_answer, tolerance))

\* _grade_numerical, once both numbers are parsed
NumericalParsed(question, user_answer, correct_answer, user_answer_float, api) ==
    IF WithinTolerance(correct_answer, user_answer_float,
                       RAbs(RMul(correct_answer, NUMERICAL_TOLERANCE)))
    THEN Graded(One, Feedback("Correct! (Answer: ", FloatStr(correct_answer)),
                TRUE, << >>)
    ELSE NumericalOutside(question, PyString(FloatStr(correct_answer)),
                          PyString(PyStr(user_answer)), api)

\* the try block of _grade_numerical
NumericalTry(question, user_answer, correct_answer, user_answer_float, api) ==
    IF ~correct_answer.ok \/ ~user_answer_float.ok
    THEN InvalidNumerical(question, << >>)
    ELSE NumericalParsed(question, user_answer, correct_answer.v,
                         user_answer_float.v, api)

\* _grade_numerical
GradeNumerical(question, user_answer, api) ==
    IF user_answer.t = "none" \/ StrStrip(PyStr(user_answer)) = << >>
    THEN Graded(Zero, Feedback("No answer provided", << >>), FALSE, << >>)
    ELSE NumericalTry(question, user_answer,
                      PyFloatOf(question.correct_answer),
                      PyFloatOf(user_answer), api)

MutGradeByTypeRejectsUnknown(question, user_answer, api) ==
    CASE question.type = "mcq" -> GradeMcq(question, user_answer)
      [] question.type = "short" -> GradeShortAnswer(question, user_answer, api)
      [] question.type = "numerical" -> GradeNumerical(question, user_answer, api)
      [] OTHER -> Escaping("ValueError", << >>)

\* the dispatch on the question type in grade_quiz
GradeByType(question, user_answer, api) ==
    CASE question.type = "mcq" -> GradeMcq(question, user_answer)
      [] question.type = "short" -> GradeShortAnswer(question, user_answer, api)
      [] question.type = "numerical" -> GradeNumerical(question, user_answer, api)
      [] OTHER -> Graded(Zero, Feedback("Unknown question type", << >>), FALSE,
                         << >>)

(***************************************************************************)
(* grade_quiz.  The loop over the questions is one step per question; the  *)
(* step of a question includes its call to the semantic grader.            *)
(***************************************************************************)
\* question.get("topic", "general"), question.get("points", 1.0)
TopicOf(question) ==
    IF question.topic = << >> THEN "general" ELSE question.topic[1]
PointsOf(question) ==
    IF question.points = << >> THEN One ELSE question.points[1]

\* answers.get(q_id)
AnswerGet(ans, q_id) == IF q_id \in DOMAIN ans THEN ans[q_id] ELSE PyNone

RECURSIVE RSum(_)
RSum(scores) ==
    IF scores = << >> THEN Zero
    ELSE RAdd(RSum(SubSeq(scores, 1, Len(scores) - 1)), scores[Len(scores)])

\* topic_performance with score appended to the list of topic
TrackTopic(performance, topic, score) ==
    IF \E i \in 1 .. Len(performance) : performance[i].topic = topic
    THEN [ i \in 1 .. Len(performance) |->
             IF performance[i].topic = topic
             THEN [ performance[i] EXCEPT !.scores = Append(@, score) ]
             ELSE performance[i] ]
    ELSE Append(performance, [ topic |-> topic, scores |-> << score >> ])

\* the entry appended to the breakdown
MutEntryUnweighted(question, user_answer, r) ==
    [ q_id |-> question.q_id,
      user_answer |-> user_answer,
      correct_answer |-> question.correct_answer,
      score |-> r.score,
      max_score |-> PointsOf(question),
      feedback |-> r.feedback,
      is_correct |-> r.is_correct,
      topic |-> TopicOf(question) ]

BreakdownEntry(question, user_answer, r) ==
    [ q_id |-> question.q_id,
      user_answer |-> user_answer,
      correct_answer |-> question.correct_answer,
      score |-> RMul(r.score, PointsOf(question)),
      max_score |-> PointsOf(question),
      feedback |-> r.feedback,
      is_correct |-> r.is_correct,
      topic |-> TopicOf(question) ]

\* breakdown.append(entry)
MutAddEntryInFront(entries, entry) == << entry >> \o entries

AddEntry(entries, entry) == Append(entries, entry)

\* sum(scores) / len(scores)
Mean(scores) == RDiv(RSum(scores), RInt(Len(scores)))

RECURSIVE SelectWeak(_)
SelectWeak(performance) ==
    IF performance = << >> THEN << >>
    ELSE (IF RLt(Mean(Head(performance).scores), Rat(6, 10))
          THEN << Head(performance).topic >>
          ELSE << >>)
         \o SelectWeak(Tail(performance))

RECURSIVE MutWeakTopicsInclusive(_)
MutWeakTopicsInclusive(performance) ==
    IF performance = << >> THEN << >>
    ELSE (IF RLe(Mean(Head(performance).scores), Rat(6, 10))
          THEN << Head(performance).topic >>
          ELSE << >>)
         \o MutWeakTopicsInclusive(Tail(performance))

\* weak_topics: the topics whose mean score is below 0.6, in first-seen order
WeakTopics(performance) == SelectWeak(performance)

SeqRange(seq) == { seq[i] : i \in 1 .. Len(seq) }

\* the orders in which a set may be iterated
Orderings(S) ==
    { f \in [ 1 .. Cardinality(S) -> S ] :
        \A i, j \in 1 .. Cardinality(S) : f[i] = f[j] => i = j }

(***************************************************************************)
(* _generate_feedback: the parts joined by " ".  review_order is the order *)
(* in which the set of topics to review is iterated.                       *)
(***************************************************************************)
MutPercentageAsFraction(total, max) ==
    IF RLt(Zero, max) THEN RDiv(total, max) ELSE Zero

Percentage(total, max) ==
    IF RLt(Zero, max) THEN RMul(RDiv(total, max), RInt(100)) ELSE Zero

MutReviewEveryTopic(entries) ==
    { entries[i].topic : i \in 1 .. Len(entries) }

TopicsToReview(entries) ==
    { entries[i].topic : i \in { j \in 1 .. Len(entries) : ~entries[j].is_correct } }

GenerateFeedback(total, max, weak_topics, entries, review_order) ==
    LET percentage == Percentage(total, max)
        summary ==
            IF RGe(percentage, RInt(90))
            THEN "Excellent work! Strong understanding across all topics."
            ELSE IF RGe(percentage, RInt(75))
            THEN "Good performance! You have a solid grasp of the material."
            ELSE IF RGe(percentage, RInt(60))
            THEN "Fair performance. Review the weak areas for improvement."
            ELSE "Needs improvement. Focus on understanding core concepts."
    IN  << [ text |-> summary, topics |-> << >> ] >>
        \o (IF weak_topics # << >>
            THEN << [ text |-> "Focus on: ", topics |-> weak_topics ] >>
            ELSE << >>)
        \o (IF TopicsToReview(entries) # { }
            THEN << [ text |-> "Review topics: ", topics |-> review_order ] >>
            ELSE << >>)

(***************************************************************************)
(* CompletionService: class constants.                                     *)
(***************************************************************************)
WEIGHT_TIME == Rat(30, 100)
WEIGHT_SCROLL == Rat(40, 100)
WEIGHT_INTERACTION == Rat(30, 100)
THRESHOLD == Rat(75, 100)
EXPECTED_TIME_PER_PAGE == 60
BASELINE_PAGES == 10

(***************************************************************************)
(* _calculate_time_score                                                   *)
(***************************************************************************)
MutTimeScoreNoCap(time_spent, estimated_pages) ==
    LET expected_time0 == estimated_pages * EXPECTED_TIME_PER_PAGE
        expected_time == IF expected_time0 = 0
                         THEN BASELINE_PAGES * EXPECTED_TIME_PER_PAGE
                         ELSE expected_time0
    IN  Rat(time_spent, expected_time)

MutTimeScoreFallbackOnePage(time_spent, estimated_pages) ==
    LET expected_time0 == estimated_pages * EXPECTED_TIME_PER_PAGE
        expected_time == IF expected_time0 = 0
                         THEN EXPECTED_TIME_PER_PAGE
                         ELSE expected_time0
    IN  RMin(Rat(time_spent, expected_time), One)

CalculateTimeScore(time_spent, estimated_pages) ==
    LET expected_time0 == estimated_pages * EXPECTED_TIME_PER_PAGE
        expected_time == IF expected_time0 = 0
                         THEN BASELINE_PAGES * EXPECTED_TIME_PER_PAGE
                         ELSE expected_time0
    IN  RMin(Rat(time_spent, expected_time), One)

(***************************************************************************)
(* _calculate_scroll_score; scroll_pct is a rational.                      *)
(***************************************************************************)
MutScrollScoreNoCap(scroll_pct) == RDiv(scroll_pct, RInt(100))

MutScrollScoreFloorDiv(scroll_pct) ==
    RMin(RInt(scroll_pct[1] \div (scroll_pct[2] * 100)), One)

CalculateScrollScore(scroll_pct) == RMin(RDiv(scroll_pct, RInt(100)), One)

(***************************************************************************)
(* _calculate_interaction_score                                            *)
(***************************************************************************)
MutInteractionNoZeroGuard(selections, time_spent) ==
    LET expected_selections == RMax(Rat(time_spent, 120), One)
        selection_ratio == RDiv(RInt(selections), expected_selections)
    IN  RMin(selection_ratio, One)

MutInteractionPerMinute(selections, time_spent) ==
    IF time_spent = 0
    THEN Zero
    ELSE LET expected_selections == RMax(Rat(time_spent, 60), One)
             selection_ratio == RDiv(RInt(selections), expected_selections)
         IN  RMin(selection_ratio, One)

MutInteractionHalfWhenIdle(selections, time_spent) ==
    IF time_spent = 0
    THEN Zero
    ELSE LET expected_selections == RMax(Rat(time_spent, 120), RInt(2))
             selection_ratio == RDiv(RInt(selections), expected_selections)
         IN  RMin(selection_ratio, One)

CalculateInteractionScore(selections, time_spent) ==
    IF time_spent = 0
    THEN Zero
    ELSE LET expected_selections == RMax(Rat(time_spent, 120), One)
             selection_ratio == RDiv(RInt(selections), expected_selections)
         IN  RMin(selection_ratio, One)

(***************************************************************************)
(* f"{x:.2f}": x in hundredths, rounded to nearest, ties to even.          *)
(***************************************************************************)
Format2f(x) ==
    LET n == x[1] * 100
        d == x[2]
        q == n \div d
        r == n % d
    IN  IF 2 * r < d THEN q
        ELSE IF 2 * r > d THEN q + 1
        ELSE IF q % 2 = 0 THEN q ELSE q + 1

(***************************************************************************)
(* composite_score and is_completed of calculate_completion.               *)
(***************************************************************************)
CompositeScore(time_score, scroll_score, interaction_score) ==
    RAdd(RAdd(RMul(time_score, WEIGHT_TIME),
              RMul(scroll_score, WEIGHT_SCROLL)),
         RMul(interaction_score, WEIGHT_INTERACTION))

MutIsCompletedStrict(composite_score) == RLt(THRESHOLD, composite_score)

IsCompleted(composite_score) == RGe(composite_score, THRESHOLD)

(***************************************************************************)
(* calculate_completion: the record of one call, inputs and results.       *)
(***************************************************************************)
CompletionResult(time_spent, scroll_pct, selections, estimated_pages) ==
    LET time_score == CalculateTimeScore(time_spent, estimated_pages)
        scroll_score == CalculateScrollScore(scroll_pct)
        interaction_score == CalculateInteractionScore(selections, time_spent)
        composite_score ==
            CompositeScore(time_score, scroll_score, interaction_score)
    IN  [ called |-> TRUE,
          time_spent |-> time_spent,
          scroll_pct |-> scroll_pct,
          selections |-> selections,
          estimated_pages |-> estimated_pages,
          time_score |-> time_score,
          scroll_score |-> scroll_score,
          interaction_score |-> interaction_score,
          composite_score |-> composite_score,
          is_completed |-> IsCompleted(composite_score),
          method_details |->
              [ algorithm |-> "multi_factor_v1",
                time |-> Format2f(time_score),
                scroll |-> Format2f(scroll_score),
                interact |-> Format2f(interaction_score),
                composite |-> Format2f(composite_score) ] ]

NoCompletion ==
    [ called |-> FALSE,
      time_spent |-> 0,
      scroll_pct |-> Zero,
      selections |-> 0,
      estimated_pages |-> 0,
      time_score |-> Zero,
      scroll_score |-> Zero,
      interaction_score |-> Zero,
      composite_score |-> Zero,
      is_completed |-> FALSE,
      method_details |->
          [ algorithm |-> "multi_factor_v1", time |-> 0, scroll |-> 0,
            interact |-> 0, composite |-> 0 ] ]

(***************************************************************************)
(* Telemetry the estimator is called with: seconds in steps of 60, scroll  *)
(* in steps of 12.5 percent, page counts around zero and the default of    *)
(* 10; each with values outside the validated domain.                      *)
(***************************************************************************)
TimeValues == { 60 * k : k \in -1 .. MaxTimeSteps }
ScrollValues == { Rat(25 * k, 2) : k \in -1 .. (2 * MaxScrollSteps) }
SelectionValues == -1 .. MaxSelections
PageValues == (-1 .. MaxPages) \cup { BASELINE_PAGES }

CalculateCompletion ==
    /\ ~completion.called
    /\ \E time_spent \in TimeValues, scroll_pct \in ScrollValues,
       selections \in SelectionValues, estimated_pages \in PageValues :
            completion' = CompletionResult(time_spent, scroll_pct, selections,
                                           estimated_pages)

(***************************************************************************)
(* The service keeps nothing between calls: the result is handed to the    *)
(* caller and the next call starts afresh.                                 *)
(***************************************************************************)
CompletionReturn ==
    /\ completion.called
    /\ completion' = NoCompletion

CInit == completion = NoCompletion

CNext == CalculateCompletion \/ CompletionReturn

(***************************************************************************)
(* The quizzes and submissions graded.  A quiz is a list of questions from *)
(* QuestionBank, the i-th with q_id "q<i>"; a submission gives each        *)
(* question no answer or one of SubmittedValues.                           *)
(***************************************************************************)
QuestionBank ==
    { [ type |-> "mcq",
        question |-> << "Q", "1" >>,
        options |-> [ t |-> "list",
                      v |-> << << "x" >>, << "y" >>, << "z" >>, << "w" >> >> ],
        correct_answer |-> PyInt(2),
        topic |-> << "algebra" >>,
        points |-> << >> ],
      [ type |-> "short",
        question |-> << "Q", "2" >>,
        options |-> [ t |-> "none", v |-> << >> ],
        correct_answer |-> PyString(<< "c", "e", "l", "l", " ", "w", "a", "l", "l" >>),
        topic |-> << "biology" >>,
        points |-> << RInt(2) >> ],
      [ type |-> "numerical",
        question |-> << "Q", "3" >>,
        options |-> [ t |-> "none", v |-> << >> ],
        correct_answer |-> PyString(<< "1", "0", "0" >>),
        topic |-> << "algebra" >>,
        points |-> << Rat(1, 2) >> ],
      [ type |-> "essay",
        question |-> << "Q", "4" >>,
        options |-> [ t |-> "absent", v |-> << >> ],
        correct_answer |-> PyString(<< "c", "e", "l", "l" >>),
        topic |-> << >>,
        points |-> << >> ] }

SubmittedValues ==
    { PyString(<< >>),
      PyString(<< " " >>),
      PyString(<< "C" >>),
      PyInt(2),
      PyString(<< "1", "0", "2" >>),
      PyString(<< "C", "e", "l", "l", " ", "W", "a", "l", "l", " " >>) }

\* an answer of the submission: none (the key is absent), or << value >>
SubmittedAnswers == { << >> } \cup { << v >> : v \in SubmittedValues }

QId(i) == << "q" >> \o NatStr(i)

WithIds(qs) ==
    [ i \in 1 .. Len(qs) |->
        [ q_id |-> QId(i),
          type |-> qs[i].type,
          question |-> qs[i].question,
          options |-> qs[i].options,
          correct_answer |-> qs[i].correct_answer,
          topic |-> qs[i].topic,
          points |-> qs[i].points ] ]

AnswersMap(given) ==
    [ q_id \in { QId(i) : i \in { j \in 1 .. Len(given) : given[j] # << >> } } |->
        given[CHOOSE i \in 1 .. Len(given) : QId(i) = q_id][1] ]

\* what the model of the semantic grader may reply
OracleScores == { Rat(-1, 2), Rat(3, 5), Rat(7, 10), Rat(3, 2) }
ApiOutcomes == { ApiFailure } \cup { ApiScore(x) : x \in OracleScores }

NoResult ==
    [ total_score |-> Zero, breakdown |-> << >>, weak_topics |-> << >>,
      feedback |-> << >> ]

(***************************************************************************)
(* One-question quizzes over a wider range of questions and answers: a     *)
(* multiple-choice question for each reference index 0..3, short-answer    *)
(* references with and without words longer than 3 letters, numerical      *)
(* references that are positive, negative, zero and not a number.          *)
(***************************************************************************)
McqQuestion(c) ==
    [ type |-> "mcq",
      question |-> << "Q", "1" >>,
      options |-> [ t |-> "list",
                    v |-> << << "x" >>, << "y" >>, << "z" >>, << "w" >> >> ],
      correct_answer |-> PyInt(c),
      topic |-> << "algebra" >>,
      points |-> << >> ]

ShortQuestion(reference) ==
    [ type |-> "short",
      question |-> << "Q", "2" >>,
      options |-> [ t |-> "none", v |-> << >> ],
      correct_answer |-> PyString(reference),
      topic |-> << "biology" >>,
      points |-> << RInt(2) >> ]

NumericalQuestion(reference) ==
    [ type |-> "numerical",
      question |-> << "Q", "3" >>,
      options |-> [ t |-> "none", v |-> << >> ],
      correct_answer |-> PyString(reference),
      topic |-> << "algebra" >>,
      points |-> << Rat(1, 2) >> ]

ShortReferences ==
    { << "c", "e", "l", "l", " ", "w", "a", "l", "l" >>,
      << "D", "N", "A" >>,
      << "C", "e", "l", "l", " ", "w", "a", "l", "l", " ",
         "c", "e", "l", "l", " ", "m", "e", "m", "b", "r", "a", "n", "e" >> }

NumericalReferences ==
    { << "1", "0", "0" >>, << "-", "5", "0" >>, << "0" >>,
      << "a", "b", "c" >> }

\* multiple-choice questions whose reference cannot be looked up: out of
\* the bounds of the options, or the options empty, missing or None
McqWith(c, options) == [ McqQuestion(c) EXCEPT !.options = options ]

McqWithoutOption ==
    { McqQuestion(-1), McqQuestion(4),
      McqWith(0, [ t |-> "list", v |-> << >> ]),
      McqWith(0, [ t |-> "absent", v |-> << >> ]),
      McqWith(0, [ t |-> "none", v |-> << >> ]),
      McqWith(-1, [ t |-> "none", v |-> << >> ]) }

McqBank == { McqQuestion(c) : c \in 0 .. 3 } \cup McqWithoutOption

SingleQuestionBank ==
    { McqQuestion(c) : c \in 0 .. 3 }
    \cup { ShortQuestion(x) : x \in ShortReferences }
    \cup { NumericalQuestion(x) : x \in NumericalReferences }
    \cup { q \in QuestionBank : q.type = "essay" }

SingleSubmittedValues ==
    { PyString(<< >>), PyString(<< " " >>),
      PyString(<< "A" >>), PyString(<< "B" >>), PyString(<< "C" >>),
      PyString(<< "D" >>), PyString(<< "b" >>), PyString(<< "E" >>),
      PyInt(0), PyInt(2),
      PyString(<< "1", "0", "2" >>), PyString(<< "9", "8" >>),
      PyString(<< "1", "0", "1", ".", "5" >>),
      PyString(<< "1", "1", "0" >>), PyString(<< "9", "7" >>),
      PyString(<< "-", "5", "1" >>), PyString(<< "-", "4", "9" >>),
      PyString(<< "-", "4", "8" >>), PyString(<< "-", "5", "2" >>),
      PyString(<< "0" >>), PyString(<< "a", "b", "c" >>),
      PyString(<< "a", " ", "c", "e", "l", "l", " ", "w", "a", "l", "l" >>),
      PyString(<< "t", "h", "e", " ", "C", "E", "L", "L" >>),
      PyString(<< "C", "e", "l", "l", " ", "W", "a", "l", "l", " " >>) }

SingleSubmittedAnswers == { << >> } \cup { << v >> : v \in SingleSubmittedValues }

(***************************************************************************)
(* grade_quiz called a second time with the same arguments.  previous      *)
(* keeps what the first call returned and the calls it made to the         *)
(* semantic grader; same_process tells whether the second call runs in the *)
(* interpreter process of the first (or in another worker, or after a      *)
(* restart).                                                               *)
(***************************************************************************)
NoPrevious ==
    [ valid |-> FALSE, same_process |-> FALSE, result |-> NoResult,
      calls |-> << >> ]

\* the arguments of two calls of grade_answer are the same
SameArguments(c1, c2) ==
    /\ c1.question = c2.question
    /\ c1.correct_answer = c2.correct_answer
    /\ c1.user_answer = c2.user_answer
    /\ c1.question_type = c2.question_type
    /\ c1.topic = c2.topic

\* the semantic grader met the same outcome whenever it had the same arguments
DeterministicOracle(calls) ==
    \A i, k \in 1 .. Len(calls) :
        SameArguments(calls[i], calls[k]) => calls[i].api = calls[k].api

\* [item["topic"] for item in breakdown if not item["is_correct"]]
RECURSIVE IncorrectTopics(_)
IncorrectTopics(entries) ==
    IF entries = << >> THEN << >>
    ELSE (IF Head(entries).is_correct THEN << >>
          ELSE << Head(entries).topic >>)
         \o IncorrectTopics(Tail(entries))

\* the order in which the topics to review were listed in a result
ReviewOrderOf(res) ==
    IF /\ res.feedback # << >>
       /\ res.feedback[Len(res.feedback)].text = "Review topics: "
    THEN res.feedback[Len(res.feedback)].topics
    ELSE << >>

\* list(set(incorrect_topics)): the iteration order of a set of str depends
\* on the hash seed of the process and on the insertions; in one process the
\* same insertions give the same order
SetIteration(review_order) ==
    ( /\ previous.valid
      /\ previous.same_process
      /\ IncorrectTopics(previous.result.breakdown) = IncorrectTopics(breakdown) )
    => review_order = ReviewOrderOf(previous.result)

GInit ==
    /\ g_pc = "idle"
    /\ questions = << >>
    /\ answers = << >>
    /\ idx = 0
    /\ breakdown = << >>
    /\ total_score = Zero
    /\ max_score = Zero
    /\ topic_performance = << >>
    /\ graded = << >>
    /\ oracle_calls = << >>
    /\ result = NoResult
    /\ exception = ""
    /\ previous = NoPrevious

\* grade_quiz is called: lines 44-47
StartGrading ==
    /\ g_pc = "idle"
    /\ \E n \in 0 .. MaxQuestions :
         \E qs \in [ 1 .. n -> QuestionBank ],
            given \in [ 1 .. n -> SubmittedAnswers ] :
              /\ questions' = WithIds(qs)
              /\ answers' = AnswersMap(given)
    /\ g_pc' = "grading"
    /\ idx' = 1
    /\ breakdown' = << >>
    /\ total_score' = Zero
    /\ max_score' = Zero
    /\ topic_performance' = << >>
    /\ UNCHANGED << graded, oracle_calls, result, exception, previous >>

\* grade_quiz is called with a quiz of one question
StartGradingOne ==
    /\ g_pc = "idle"
    /\ \E q \in SingleQuestionBank, given \in SingleSubmittedAnswers :
         /\ questions' = WithIds(<< q >>)
         /\ answers' = AnswersMap(<< given >>)
    /\ g_pc' = "grading"
    /\ idx' = 1
    /\ breakdown' = << >>
    /\ total_score' = Zero
    /\ max_score' = Zero
    /\ topic_performance' = << >>
    /\ UNCHANGED << graded, oracle_calls, result, exception, previous >>

\* grade_quiz is called with one multiple-choice question of McqBank
StartGradingMcq ==
    /\ g_pc = "idle"
    /\ \E q \in McqBank, given \in SingleSubmittedAnswers :
         /\ questions' = WithIds(<< q >>)
         /\ answers' = AnswersMap(<< given >>)
    /\ g_pc' = "grading"
    /\ idx' = 1
    /\ breakdown' = << >>
    /\ total_score' = Zero
    /\ max_score' = Zero
    /\ topic_performance' = << >>
    /\ UNCHANGED << graded, oracle_calls, result, exception, previous >>

\* lines 72-92 of the loop body, or the exception leaving grade_quiz
Account(question, user_answer, r) ==
    /\ oracle_calls' = oracle_calls \o r.calls
    /\ IF r.raised
       THEN /\ g_pc' = "raised"
            /\ exception' = r.exc
            /\ UNCHANGED << idx, breakdown, total_score, max_score,
                            topic_performance, graded >>
       ELSE /\ total_score' =
                   RAdd(total_score, RMul(r.score, PointsOf(question)))
            /\ max_score' = RAdd(max_score, PointsOf(question))
            /\ topic_performance' =
                   TrackTopic(topic_performance, TopicOf(question), r.score)
            /\ breakdown' =
                   AddEntry(breakdown, BreakdownEntry(question, user_answer, r))
            /\ graded' = Append(graded,
                                [ score |-> r.score,
                                  feedback |-> r.feedback,
                                  is_correct |-> r.is_correct ])
            /\ idx' = idx + 1
            /\ UNCHANGED << g_pc, exception >>

\* in a second grading the semantic grader replies as it did in the first
Replayed(calls) ==
    \A i \in 1 .. Len(calls), k \in 1 .. Len(previous.calls) :
        SameArguments(calls[i], previous.calls[k])
            => calls[i].api = previous.calls[k].api

GradeOne(question, user_answer, api) ==
    /\ Replayed(GradeByType(question, user_answer, api).calls)
    /\ Account(question, user_answer, GradeByType(question, user_answer, api))

\* one iteration of the loop, lines 49-92
GradeQuestion ==
    /\ g_pc = "grading"
    /\ idx <= Len(questions)
    /\ \E api \in ApiOutcomes :
         GradeOne(questions[idx], AnswerGet(answers, questions[idx].q_id), api)
    /\ UNCHANGED << questions, answers, result, previous >>

Finish(weak_topics, review_order) ==
    result' = [ total_score |-> total_score,
                breakdown |-> breakdown,
                weak_topics |-> weak_topics,
                feedback |-> GenerateFeedback(total_score, max_score,
                                              weak_topics, breakdown,
                                              review_order) ]

\* after the loop, lines 94-105
FinishGrading ==
    /\ g_pc = "grading"
    /\ idx > Len(questions)
    /\ \E review_order \in Orderings(TopicsToReview(breakdown)) :
         /\ SetIteration(review_order)
         /\ Finish(WeakTopics(topic_performance), review_order)
    /\ g_pc' = "done"
    /\ UNCHANGED << questions, answers, idx, breakdown, total_score, max_score,
                    topic_performance, graded, oracle_calls, exception,
                    previous >>

\* the caller has the result or the exception; nothing is kept for the next call
GradingReturn ==
    /\ g_pc \in { "done", "raised" }
    /\ g_pc' = "idle"
    /\ questions' = << >>
    /\ answers' = << >>
    /\ idx' = 0
    /\ breakdown' = << >>
    /\ total_score' = Zero
    /\ max_score' = Zero
    /\ topic_performance' = << >>
    /\ graded' = << >>
    /\ oracle_calls' = << >>
    /\ result' = NoResult
    /\ exception' = ""
    /\ previous' = NoPrevious

\* the caller keeps the result and calls grade_quiz again with the same
\* questions and answers, in the same process or in another one
GradeAgain ==
    /\ g_pc = "done"
    /\ ~previous.valid
    /\ DeterministicOracle(oracle_calls)
    /\ \E same_process \in BOOLEAN :
         previous' = [ valid |-> TRUE, same_process |-> same_process,
                       result |-> result, calls |-> oracle_calls ]
    /\ g_pc' = "grading"
    /\ idx' = 1
    /\ breakdown' = << >>
    /\ total_score' = Zero
    /\ max_score' = Zero
    /\ topic_performance' = << >>
    /\ graded' = << >>
    /\ oracle_calls' = << >>
    /\ result' = NoResult
    /\ UNCHANGED << questions, answers, exception >>

GNext == StartGrading \/ GradeQuestion \/ FinishGrading \/ GradingReturn

(***************************************************************************)
(* RateLimiter (app/utils/rate_limiter.py) behind rate_limit_middleware    *)
(* (app/main.py).  A tracker maps the clients it has a key for to their    *)
(* list of (timestamp, count) entries.  The clock is read three times in a *)
(* check: by check_rate_limit itself, then by each of the two cleanups; it *)
(* may advance between the reads.                                          *)
(***************************************************************************)
MINUTE_WINDOW == 60
HOUR_WINDOW == 3600

Clients == { "10.0.0.1", "10.0.0.2" }

ExemptPaths == { "/health", "/docs", "/redoc", "/openapi.json" }
Paths == { "/health", "/api/quizzes" }

\* the instants at which the clock is observed: the ends of the windows that
\* open at 0, one second before them, and one minute window after the hour
Instants ==
    { 0, MINUTE_WINDOW - 1, MINUTE_WINDOW, HOUR_WINDOW - 1, HOUR_WINDOW,
      HOUR_WINDOW + MINUTE_WINDOW - 1, HOUR_WINDOW + MINUTE_WINDOW }

\* a later read of the clock in the same check
LaterReads(t) == { u \in Instants : t <= u /\ u <= t + MaxSkew }

NoTracker == [ c \in { } |-> << >> ]

MutRecentInclusive(entries, cutoff_time) ==
    SelectSeq(entries, LAMBDA e : e.ts >= cutoff_time)

\* [(ts, count) for ts, count in entries if ts > cutoff_time]
Recent(entries, cutoff_time) ==
    SelectSeq(entries, LAMBDA e : e.ts > cutoff_time)

\* _cleanup_old_entries, the clock reading current_time
CleanupOldEntries(tracker, current_time, window_seconds) ==
    [ c \in { d \in DOMAIN tracker :
                Recent(tracker[d], current_time - window_seconds) # << >> } |->
        Recent(tracker[c], current_time - window_seconds) ]

\* tracker[client_id] on a defaultdict(list): a missing key is created
Lookup(tracker, client_id) ==
    [ c \in DOMAIN tracker \cup { client_id } |->
        IF c \in DOMAIN tracker THEN tracker[c] ELSE << >> ]

\* sum(count for _, count in entries)
RECURSIVE RequestCount(_)
RequestCount(entries) ==
    IF entries = << >> THEN 0
    ELSE Head(entries).count + RequestCount(Tail(entries))

\* tracker[client_id].append((current_time, 1))
Recorded(tracker, client_id, current_time) ==
    [ tracker EXCEPT ![client_id] =
        Append(@, [ ts |-> current_time, count |-> 1 ]) ]

NoRequest ==
    [ valid |-> FALSE, client |-> "", checked |-> FALSE, status |-> 0,
      t |-> 0, t_minute |-> 0, t_hour |-> 0 ]

Handled(client_id, checked, status, t, t_minute, t_hour) ==
    [ valid |-> TRUE, client |-> client_id, checked |-> checked,
      status |-> status, t |-> t, t_minute |-> t_minute, t_hour |-> t_hour ]

RInit ==
    /\ rl_clock = 0
    /\ minute_tracker = NoTracker
    /\ hour_tracker = NoTracker
    /\ rl_accepted = [ c \in Clients |-> << >> ]
    /\ rl_last = NoRequest
    /\ rl_skewed = FALSE

\* the HTTPException(429) of check_rate_limit, answered by the middleware
TooManyRequests(client_id, minutes, hours, t, t_minute, t_hour) ==
    /\ minute_tracker' = minutes
    /\ hour_tracker' = hours
    /\ rl_last' = Handled(client_id, TRUE, 429, t, t_minute, t_hour)
    /\ UNCHANGED rl_accepted

\* lines 92-94: the request is recorded and passed on
Pass(client_id, minutes, hours, t, t_minute, t_hour) ==
    /\ minute_tracker' = Recorded(minutes, client_id, t)
    /\ hour_tracker' = Recorded(hours, client_id, t)
    /\ rl_last' = Handled(client_id, TRUE, 200, t, t_minute, t_hour)
    /\ rl_accepted' = [ rl_accepted EXCEPT ![client_id] = Append(@, t) ]

\* lines 66-90, minutes and hours being the trackers after the cleanups
CheckLimits(client_id, minutes, hours, t, t_minute, t_hour) ==
    IF RequestCount(Lookup(minutes, client_id)[client_id]) >= RequestsPerMinute
    THEN TooManyRequests(client_id, Lookup(minutes, client_id), hours,
                         t, t_minute, t_hour)
    ELSE IF RequestCount(Lookup(hours, client_id)[client_id]) >= RequestsPerHour
    THEN TooManyRequests(client_id, Lookup(minutes, client_id),
                         Lookup(hours, client_id), t, t_minute, t_hour)
    ELSE Pass(client_id, Lookup(minutes, client_id), Lookup(hours, client_id),
              t, t_minute, t_hour)

\* check_rate_limit: current_time is read at t, the cleanups read the clock
\* at t_minute and t_hour
CheckRateLimit(client_id, t, t_minute, t_hour) ==
    /\ CheckLimits(client_id,
                   CleanupOldEntries(minute_tracker, t_minute, MINUTE_WINDOW),
                   CleanupOldEntries(hour_tracker, t_hour, HOUR_WINDOW),
                   t, t_minute, t_hour)
    /\ rl_clock' = t_hour
    /\ rl_skewed' = (rl_skewed \/ t_hour > t)

\* rate_limit_middleware: one request, from its arrival to its response
RateLimitMiddleware ==
    \E client_id \in Clients, path \in Paths :
        IF path \in ExemptPaths
        THEN /\ rl_last' = Handled(client_id, FALSE, 200, rl_clock, rl_clock,
                                   rl_clock)
             /\ UNCHANGED << rl_clock, minute_tracker, hour_tracker,
                             rl_accepted, rl_skewed >>
        ELSE \E t_minute \in LaterReads(rl_clock) :
                 \E t_hour \in LaterReads(t_minute) :
                     CheckRateLimit(client_id, rl_clock, t_minute, t_hour)

\* time passes between two requests
ClockAdvance ==
    /\ \E t \in Instants : t > rl_clock /\ rl_clock' = t
    /\ UNCHANGED << minute_tracker, hour_tracker, rl_accepted, rl_last,
                    rl_skewed >>

RNext == RateLimitMiddleware \/ ClockAdvance

(***************************************************************************)
(* generate_quiz (app/api/quizzes.py) with CacheService                    *)
(* (app/utils/cache.py): one request per step.  redis_up tells whether     *)
(* Redis answers during the request (redis_client is None, or get/setex    *)
(* raise, when it does not).                                               *)
(***************************************************************************)
Chapters == { << "c", "1" >> }
RequestedChapters == Chapters \cup { << "c", "0" >> }

RequestParams ==
    [ chapter_id : RequestedChapters,
      difficulty : { << "e", "a", "s", "y" >>, << "h", "a", "r", "d" >> },
      num_mcq : { 1 },
      num_short : { 1 },
      num_numerical : { 0, 1 } ]

StoredParams == { p \in RequestParams : p.chapter_id \in Chapters }

\* f"quiz:{chapter_id}:{difficulty}:{num_mcq}:{num_short}:{num_numerical}"
GenerateCacheKey(p) ==
    << "q", "u", "i", "z", ":" >> \o p.chapter_id \o << ":" >> \o p.difficulty
    \o << ":" >> \o NatStr(p.num_mcq) \o << ":" >> \o NatStr(p.num_short)
    \o << ":" >> \o NatStr(p.num_numerical)

\* hashlib.sha256(...).hexdigest(), taken as free of collisions
Sha256(text) == [ sha256 |-> text ]

\* sha256 of f"{chapter_id}|{difficulty}|{num_mcq}|{num_short}|{num_numerical}"
GenerateVariantHash(p) ==
    Sha256(p.chapter_id \o << "|" >> \o p.difficulty \o << "|" >>
           \o NatStr(p.num_mcq) \o << "|" >> \o NatStr(p.num_short)
           \o << "|" >> \o NatStr(p.num_numerical))

\* a uuid.UUID object
Uuid(k) == [ t |-> "UUID", v |-> k ]

\* json.dumps(value): a UUID object is not JSON serializable (TypeError)
JsonDumps(value) ==
    IF value.quiz_id.t = "UUID"
    THEN [ ok |-> FALSE, text |-> << >> ]
    ELSE [ ok |-> TRUE, text |-> << value >> ]

\* json.loads(text)
JsonLoads(text) == text[1]

NoCache == [ k \in { } |-> << >> ]

\* CacheService.get: None (<< >>) without Redis, on a miss, or on an error
CacheGet(cache, key, redis_up) ==
    IF ~redis_up THEN << >>
    ELSE IF key \in DOMAIN cache THEN << JsonLoads(cache[key]) >>
    ELSE << >>

\* CacheService.set: the cache after the call
CacheSet(cache, key, value, redis_up) ==
    IF ~redis_up \/ ~JsonDumps(value).ok
    THEN cache
    ELSE [ k \in DOMAIN cache \cup { key } |->
             IF k = key THEN JsonDumps(value).text ELSE cache[k] ]

\* the questions returned by the k-th call of gemini_service.generate_quiz
GeneratedQuestions(p, k) ==
    [ i \in 1 .. (p.num_mcq + p.num_short + p.num_numerical) |->
        [ q_id |-> QId(i),
          type |-> IF i <= p.num_mcq THEN "mcq"
                   ELSE IF i <= p.num_mcq + p.num_short THEN "short"
                   ELSE "numerical",
          question |-> << "g", "e", "n" >> \o NatStr(k) ] ]

\* the questions column (JSONB): the document stored and the value loaded
ToJsonb(qs) == [ jsonb |-> qs ]
FromJsonb(column) == column.jsonb

MutFindNothing(db, variant_hash) == << >>

\* db.query(Quiz).filter(Quiz.variant_hash == variant_hash).first()
FindByVariantHash(db, variant_hash) ==
    IF \E i \in 1 .. Len(db) : db[i].variant_hash = variant_hash
    THEN << db[CHOOSE i \in 1 .. Len(db) : db[i].variant_hash = variant_hash] >>
    ELSE << >>

\* Quiz(...) added and committed, its id drawn by uuid4
Persisted(db, p, qs) ==
    Append(db, [ id |-> Uuid(Len(db) + 1),
                 chapter_id |-> p.chapter_id,
                 difficulty |-> p.difficulty,
                 questions |-> ToJsonb(qs),
                 variant_hash |-> GenerateVariantHash(p) ])

\* response_data; no generated question carries "points", so each counts 1.0
ResponseData(quiz_id, qs) ==
    [ quiz_id |-> quiz_id, questions |-> qs, total_questions |-> Len(qs),
      total_points |-> << Len(qs), 1 >> ]

NoResponse ==
    [ valid |-> FALSE, status |-> 0, quiz_id |-> Uuid(0), questions |-> << >>,
      generated |-> FALSE, served_before |-> FALSE, redis_up |-> FALSE ]

NotServed == [ served |-> FALSE, quiz_id |-> Uuid(0), questions |-> << >> ]

QInit ==
    /\ q_cache = NoCache
    /\ q_db = << >>
    /\ q_gen_calls = 0
    /\ q_requests = 0
    /\ q_first = [ p \in StoredParams |-> NotServed ]
    /\ q_last = NoResponse

\* the response leaves: HTTP 201 with the quiz, or an error status
Respond(p, status, quiz_id, qs, generated, redis_up) ==
    /\ q_last' = [ valid |-> TRUE, status |-> status, quiz_id |-> quiz_id,
                   questions |-> qs, generated |-> generated,
                   served_before |-> (p \in StoredParams /\ q_first[p].served),
                   redis_up |-> redis_up, params |-> p ]
    /\ q_first' = IF status = 201 /\ ~q_first[p].served
                  THEN [ q_first EXCEPT ![p] =
                           [ served |-> TRUE, quiz_id |-> quiz_id,
                             questions |-> qs ] ]
                  ELSE q_first

\* lines 64-66: QuizResponse(**cached_quiz), the quiz_id parsed from its text
ServeCached(p, cached, redis_up) ==
    /\ Respond(p, 201, Uuid(cached.quiz_id.v), cached.questions, FALSE,
               redis_up)
    /\ UNCHANGED << q_cache, q_db, q_gen_calls >>

\* lines 71-83
ServeExisting(p, existing_quiz, redis_up) ==
    /\ q_cache' = CacheSet(q_cache, GenerateCacheKey(p),
                           ResponseData(existing_quiz.id,
                                        FromJsonb(existing_quiz.questions)),
                           redis_up)
    /\ Respond(p, 201, existing_quiz.id, FromJsonb(existing_quiz.questions),
               FALSE, redis_up)
    /\ UNCHANGED << q_db, q_gen_calls >>

\* lines 85-134: outcome is what happens in the try block
GenerateNew(p, outcome, redis_up) ==
    /\ q_gen_calls' = q_gen_calls + 1
    /\ CASE outcome = "generator_raises" ->
              /\ Respond(p, 500, Uuid(0), << >>, TRUE, redis_up)
              /\ UNCHANGED << q_cache, q_db >>
         [] outcome = "commit_raises" ->
              /\ Respond(p, 500, Uuid(0), << >>, TRUE, redis_up)
              /\ UNCHANGED << q_cache, q_db >>
         [] outcome = "refresh_raises" ->
              /\ q_db' = Persisted(q_db, p,
                                   GeneratedQuestions(p, q_gen_calls + 1))
              /\ Respond(p, 500, Uuid(0), << >>, TRUE, redis_up)
              /\ UNCHANGED q_cache
         [] OTHER ->
              /\ q_db' = Persisted(q_db, p,
                                   GeneratedQuestions(p, q_gen_calls + 1))
              /\ q_cache' = CacheSet(q_cache, GenerateCacheKey(p),
                                     ResponseData(
                                         Uuid(Len(q_db) + 1),
                                         GeneratedQuestions(p, q_gen_calls + 1)),
                                     redis_up)
              /\ Respond(p, 201, Uuid(Len(q_db) + 1),
                         GeneratedQuestions(p, q_gen_calls + 1), TRUE, redis_up)

TryOutcomes == { "ok", "generator_raises", "commit_raises", "refresh_raises" }

\* generate_quiz, from the request to the response
HandleGenerate(p, redis_up, outcome) ==
    IF p.chapter_id \notin Chapters
    THEN /\ q_last' = [ NoResponse EXCEPT !.valid = TRUE, !.status = 404,
                                          !.redis_up = redis_up ]
         /\ UNCHANGED << q_cache, q_db, q_gen_calls, q_first >>
    ELSE IF CacheGet(q_cache, GenerateCacheKey(p), redis_up) # << >>
    THEN ServeCached(p, CacheGet(q_cache, GenerateCacheKey(p), redis_up)[1],
                     redis_up)
    ELSE IF FindByVariantHash(q_db, GenerateVariantHash(p)) # << >>
    THEN ServeExisting(p, FindByVariantHash(q_db, GenerateVariantHash(p))[1],
                       redis_up)
    ELSE GenerateNew(p, outcome, redis_up)

GenerateQuiz ==
    /\ q_requests < MaxRequests
    /\ q_requests' = q_requests + 1
    /\ \E p \in RequestParams, redis_up \in BOOLEAN, outcome \in TryOutcomes :
         HandleGenerate(p, redis_up, outcome)

QNext == GenerateQuiz

(***************************************************************************)
(* update_progress (app/api/chapters.py) on the user_progress table        *)
(* (app/models/user_progress.py): one request per step.  The request body  *)
(* has passed ProgressUpdate: time_spent >= 0, 0 <= scroll_pct <= 100,     *)
(* selections >= 0 or null.                                                *)
(***************************************************************************)
Users == { "u1", "u2" }
ProgressChapters == { "c1" }
RequestedProgressChapters == ProgressChapters \cup { "c0" }

ProgressTimes == { 0, 600 }
ProgressScrolls == { Rat(33333, 1000), Rat(175, 2), RInt(100) }
\* selections: null (<< >>) or a count
ProgressSelections == { << >>, << 5 >> }

\* x in hundredths, rounded to nearest, ties away from zero (x >= 0)
Hundredths(x) == (2 * 100 * x[1] + x[2]) \div (2 * x[2])

\* a value written to a DECIMAL(4, 2) column: rounded to two decimals; an
\* error (numeric field overflow) unless the rounded value is below 10^2
DecimalColumn(x) ==
    IF Hundredths(x) < 10000
    THEN [ ok |-> TRUE, v |-> Rat(Hundredths(x), 100) ]
    ELSE [ ok |-> FALSE, v |-> Zero ]

\* the rows of the table for one user and chapter, as positions
RowsOf(table, user_id, chapter_id) ==
    { i \in 1 .. Len(table) :
        table[i].user_id = user_id /\ table[i].chapter_id = chapter_id }

\* db.query(UserProgress).filter(...).first(): a position, or 0
FirstRow(table, user_id, chapter_id) ==
    IF RowsOf(table, user_id, chapter_id) = { } THEN 0
    ELSE CHOOSE i \in RowsOf(table, user_id, chapter_id) :
            \A j \in RowsOf(table, user_id, chapter_id) : i <= j

ProgressRow(user_id, chapter_id, time_spent, scroll_progress, is_completed, completion_method) ==
    [ user_id |-> user_id, chapter_id |-> chapter_id,
      time_spent |-> time_spent, scroll_progress |-> scroll_progress,
      is_completed |-> is_completed,
      completion_method |-> completion_method ]

\* the table after db.commit() of the row found (position i) or added (i = 0)
Committed(table, i, row) ==
    IF i = 0 THEN Append(table, row) ELSE [ table EXCEPT ![i] = row ]

NoProgressRequest ==
    [ valid |-> FALSE, time_spent |-> 0, scroll_pct |-> Zero,
      selections |-> << >> ]

NoProgressResponse ==
    [ valid |-> FALSE, status |-> 0, user_id |-> "", chapter_id |-> "",
      is_completed |-> FALSE ]

UInit ==
    /\ user_progress = << >>
    /\ up_latest = [ u \in Users, c \in ProgressChapters |->
                       NoProgressRequest ]
    /\ up_last = NoProgressResponse

\* the request is noted and the response leaves
ProgressResponse(user_id, chapter_id, time_spent, scroll_pct, selections, status, is_completed) ==
    /\ up_latest' = [ up_latest EXCEPT ![user_id, chapter_id] =
                        [ valid |-> TRUE, time_spent |-> time_spent,
                          scroll_pct |-> scroll_pct,
                          selections |-> selections ] ]
    /\ up_last' = [ valid |-> TRUE, status |-> status, user_id |-> user_id,
                    chapter_id |-> chapter_id,
                    is_completed |-> is_completed ]

\* lines 136-161 with the verdict of calculate_completion
StoreProgress(user_id, chapter_id, time_spent, scroll_pct, selections, verdict) ==
    IF DecimalColumn(scroll_pct).ok
    THEN /\ user_progress' =
              Committed(user_progress,
                        FirstRow(user_progress, user_id, chapter_id),
                        ProgressRow(user_id, chapter_id,
                                    time_spent,
                                    DecimalColumn(scroll_pct).v,
                                    verdict.is_completed,
                                    verdict.method_details))
         /\ ProgressResponse(user_id, chapter_id, time_spent, scroll_pct,
                             selections, 200, verdict.is_completed)
    ELSE \* db.commit() raises; the session is closed without a commit
         /\ UNCHANGED user_progress
         /\ ProgressResponse(user_id, chapter_id, time_spent, scroll_pct,
                             selections, 500, FALSE)

\* update_progress for a chapter that exists
HandleProgress(user_id, chapter_id, time_spent, scroll_pct, selections) ==
    IF selections = << >> /\ time_spent # 0
    THEN \* selections / expected_selections with selections None: TypeError
         /\ UNCHANGED user_progress
         /\ ProgressResponse(user_id, chapter_id, time_spent, scroll_pct,
                             selections, 500, FALSE)
    ELSE StoreProgress(user_id, chapter_id, time_spent, scroll_pct,
                       selections,
                       CompletionResult(time_spent, scroll_pct,
                                        IF selections = << >> THEN 0
                                        ELSE selections[1],
                                        BASELINE_PAGES))

UpdateProgress ==
    \E user_id \in Users, chapter_id \in RequestedProgressChapters,
       time_spent \in ProgressTimes, scroll_pct \in ProgressScrolls,
       selections \in ProgressSelections :
        IF chapter_id \notin ProgressChapters
        THEN /\ up_last' = [ NoProgressResponse EXCEPT !.valid = TRUE,
                                                       !.status = 404 ]
             /\ UNCHANGED << user_progress, up_latest >>
        ELSE HandleProgress(user_id, chapter_id, time_spent, scroll_pct,
                            selections)

UNext == UpdateProgress

(***************************************************************************)
(* Specifications.  The two services share no state, so each is also       *)
(* checked on its own.                                                     *)
(***************************************************************************)
Init == CInit /\ GInit /\ RInit /\ QInit /\ UInit

Next ==
    \/ CNext /\ UNCHANGED << gvars, rvars, qvars, uvars >>
    \/ GNext /\ UNCHANGED << cvars, rvars, qvars, uvars >>
    \/ RNext /\ UNCHANGED << cvars, gvars, qvars, uvars >>
    \/ QNext /\ UNCHANGED << cvars, gvars, rvars, uvars >>
    \/ UNext /\ UNCHANGED << cvars, gvars, rvars, qvars >>

Spec == Init /\ [][Next]_vars

SpecCompletion == Init /\ [][CNext /\ UNCHANGED << gvars, rvars, qvars, uvars >>]_vars

SpecGrading == Init /\ [][GNext /\ UNCHANGED << cvars, rvars, qvars, uvars >>]_vars

\* the rate limiter under a sequence of requests
SpecRateLimit == Init /\ [][RNext /\ UNCHANGED << cvars, gvars, qvars, uvars >>]_vars

\* grade_quiz on one multiple-choice question, its options well-formed or not
McqNext == StartGradingMcq \/ GradeQuestion \/ FinishGrading \/ GradingReturn

SpecMcq == Init /\ [][McqNext /\ UNCHANGED << cvars, rvars, qvars, uvars >>]_vars

\* update_progress under a sequence of requests, one at a time
SpecProgress == Init /\ [][UNext /\ UNCHANGED << cvars, gvars, rvars, qvars >>]_vars

\* generate_quiz under a sequence of requests, one at a time
SpecQuizGeneration == Init /\ [][QNext /\ UNCHANGED << cvars, gvars, rvars, uvars >>]_vars

\* grade_quiz on one-question quizzes
SingleNext == StartGradingOne \/ GradeQuestion \/ FinishGrading \/ GradingReturn

SpecSingle == Init /\ [][SingleNext /\ UNCHANGED << cvars, rvars, qvars, uvars >>]_vars

\* grade_quiz called twice on the same questions and answers
RegradeNext == GNext \/ GradeAgain

SpecRegrade == Init /\ [][RegradeNext /\ UNCHANGED << cvars, rvars, qvars, uvars >>]_vars

(***************************************************************************)
(* Properties.                                                             *)
(***************************************************************************)
InUnit(x) == RLe(Zero, x) /\ RLe(x, One)

ValidTelemetry ==
    /\ completion.time_spent >= 0
    /\ RLe(Zero, completion.scroll_pct)
    /\ RLe(completion.scroll_pct, RInt(100))
    /\ completion.selections >= 0
    /\ completion.estimated_pages >= 1

\* C1: the composite score returned is 0.30*time + 0.40*scroll +
\* 0.30*interaction of the component scores of the call, and is_completed is
\* true exactly when the composite is >= 0.75 (0.75 itself counts as completed).
C1_CompositeAndVerdict ==
    completion.called =>
        /\ RMul(RInt(100), completion.composite_score)
             = Rat(   30 * completion.time_score[1]
                         * completion.scroll_score[2]
                         * completion.interaction_score[2]
                    + 40 * completion.scroll_score[1]
                         * completion.time_score[2]
                         * completion.interaction_score[2]
                    + 30 * completion.interaction_score[1]
                         * completion.time_score[2]
                         * completion.scroll_score[2],
                    completion.time_score[2] * completion.scroll_score[2]
                        * completion.interaction_score[2] )
        /\ completion.is_completed
             <=> (4 * completion.composite_score[1]
                    >= 3 * completion.composite_score[2])

\* a call whose composite is exactly 0.75, reported as completed
C1_Witness ==
    /\ completion.called
    /\ completion.composite_score = << 3, 4 >>
    /\ completion.is_completed

\* C8: on the validated telemetry domain (time_spent >= 0, 0 <= scroll_pct <=
\* 100, selections >= 0, estimated_pages >= 1) the time, scroll and interaction
\* scores and the composite score all lie in [0,1].
C8_ScoresInUnitOnValidDomain ==
    (completion.called /\ ValidTelemetry) =>
        /\ InUnit(completion.time_score)
        /\ InUnit(completion.scroll_score)
        /\ InUnit(completion.interaction_score)
        /\ InUnit(completion.composite_score)

\* a valid call in which the reader stayed longer than the expected time and
\* selected more often than expected, so that both caps apply
C8_Witness ==
    /\ completion.called
    /\ ValidTelemetry
    /\ completion.time_spent
         > completion.estimated_pages * EXPECTED_TIME_PER_PAGE
    /\ completion.time_spent > 0
    /\ completion.selections * 120 > completion.time_spent
    /\ completion.selections > 1
    /\ completion.time_score = One
    /\ completion.interaction_score = One

\* C9 as stated: for all inputs, also outside the validated domain, every
\* component score and the composite score lie in [0,1].
C9_AllInputsInUnit ==
    completion.called =>
        /\ InUnit(completion.time_score)
        /\ InUnit(completion.scroll_score)
        /\ InUnit(completion.interaction_score)
        /\ InUnit(completion.composite_score)

\* C9 amended: for all inputs every component score is capped at 1, so the
\* composite is at most 1; the scores are bounded below by 0 only when
\* time_spent, scroll_pct, selections and estimated_pages are all >= 0.
C9_CappedAboveOnly ==
    completion.called =>
        /\ RLe(completion.time_score, One)
        /\ RLe(completion.scroll_score, One)
        /\ RLe(completion.interaction_score, One)
        /\ RLe(completion.composite_score, One)
        /\ ( /\ completion.time_spent >= 0
             /\ RLe(Zero, completion.scroll_pct)
             /\ completion.selections >= 0
             /\ completion.estimated_pages >= 0 )
           => /\ InUnit(completion.time_score)
              /\ InUnit(completion.scroll_score)
              /\ InUnit(completion.interaction_score)
              /\ InUnit(completion.composite_score)

\* a call outside the validated domain: the scroll score is capped at 1 for a
\* scroll_pct above 100 while the negative time_spent gives a negative time
\* score and a composite below 0
C9_Witness ==
    /\ completion.called
    /\ RLt(RInt(100), completion.scroll_pct)
    /\ completion.scroll_score = One
    /\ completion.time_spent < 0
    /\ RLt(completion.time_score, Zero)
    /\ RLt(completion.composite_score, Zero)

RECURSIVE SumOfEntryScores(_)
SumOfEntryScores(entries) ==
    IF entries = << >> THEN Zero
    ELSE RAdd(Head(entries).score, SumOfEntryScores(Tail(entries)))

\* the positions of the questions a call of the semantic grader was made for
Position(q_id) == CHOOSE i \in 1 .. Len(questions) : questions[i].q_id = q_id

Answered(i) == questions[i].q_id \in DOMAIN answers

CalledFor(i) ==
    \E k \in 1 .. Len(oracle_calls) : oracle_calls[k].q_id = questions[i].q_id

\* C2: in every result of grade_quiz, total_score is the sum of the score
\* fields of the breakdown, and each entry's score is the raw score of the
\* question times its points (1.0 when the question has no points).
C2_TotalIsSumOfEntries ==
    g_pc = "done" =>
        /\ result.total_score = SumOfEntryScores(result.breakdown)
        /\ Len(result.breakdown) = Len(graded)
        /\ \A i \in 1 .. Len(result.breakdown) :
             result.breakdown[i].score
               = IF questions[i].points = << >>
                 THEN graded[i].score
                 ELSE RMul(graded[i].score, questions[i].points[1])

\* a result over a question without points and a question with points other
\* than 1, both with a positive score
C2_Witness ==
    /\ g_pc = "done"
    /\ Len(result.breakdown) = 2
    /\ \E i, j \in 1 .. 2 :
         /\ questions[i].points = << >>
         /\ questions[j].points # << >>
         /\ questions[j].points[1] # One
         /\ RLt(Zero, graded[i].score)
         /\ RLt(Zero, graded[j].score)
    /\ RLt(One, result.total_score)

\* C3: the breakdown of every result has one entry per question, the i-th
\* for the i-th question, whichever questions needed the semantic grader.
C3_BreakdownInQuestionOrder ==
    g_pc = "done" =>
        /\ Len(result.breakdown) = Len(questions)
        /\ \A i \in 1 .. Len(questions) :
             result.breakdown[i].q_id = questions[i].q_id

\* a result over two questions of which only the second called the grader
C3_Witness ==
    /\ g_pc = "done"
    /\ Len(questions) = 2
    /\ ~CalledFor(1)
    /\ CalledFor(2)
    /\ result.breakdown[2].q_id = questions[2].q_id

TopicsOfQuiz == { TopicOf(questions[i]) : i \in 1 .. Len(questions) }

QuestionsOfTopic(T) == { i \in 1 .. Len(questions) : TopicOf(questions[i]) = T }

RECURSIVE SumOfRawScores(_)
SumOfRawScores(S) ==
    IF S = { } THEN Zero
    ELSE LET i == CHOOSE k \in S : TRUE
         IN  RAdd(graded[i].score, SumOfRawScores(S \ { i }))

\* mean(raw scores of the questions of topic T) < 0.6, as 5 * sum < 3 * count
MeanBelowSixTenths(T) ==
    5 * SumOfRawScores(QuestionsOfTopic(T))[1]
      < 3 * Cardinality(QuestionsOfTopic(T))
          * SumOfRawScores(QuestionsOfTopic(T))[2]

MeanIsSixTenths(T) ==
    5 * SumOfRawScores(QuestionsOfTopic(T))[1]
      = 3 * Cardinality(QuestionsOfTopic(T))
          * SumOfRawScores(QuestionsOfTopic(T))[2]

\* the outcome the semantic grader met for question i, if it was called
ApiMet(i) ==
    IF CalledFor(i)
    THEN oracle_calls[CHOOSE k \in 1 .. Len(oracle_calls) :
                        oracle_calls[k].q_id = questions[i].q_id].api
    ELSE ApiFailure

\* C4: a topic of the quiz is in weak_topics iff the mean of the raw scores
\* (before the multiplication by points) of its questions is below 0.6; a
\* mean of 0.6 is not weak; and the raw scores, hence weak_topics, are the
\* same when the points of the questions are changed.
C4_WeakTopicLaw ==
    g_pc = "done" =>
        /\ SeqRange(result.weak_topics) \subseteq TopicsOfQuiz
        /\ \A T \in TopicsOfQuiz :
             (T \in SeqRange(result.weak_topics)) <=> MeanBelowSixTenths(T)
        /\ \A i \in 1 .. Len(questions) :
             graded[i].score
               = GradeByType([ questions[i] EXCEPT !.points = << RInt(3) >> ],
                             AnswerGet(answers, questions[i].q_id),
                             ApiMet(i)).score

\* a result with a topic whose mean is exactly 0.6 over a question worth 2
\* points, which is not weak, beside a weak topic
C4_Witness ==
    /\ g_pc = "done"
    /\ \E T \in TopicsOfQuiz :
         /\ MeanIsSixTenths(T)
         /\ T \notin SeqRange(result.weak_topics)
         /\ \E i \in QuestionsOfTopic(T) : PointsOf(questions[i]) = RInt(2)
    /\ result.weak_topics # << >>

LocalFallbackMessages ==
    { "Correct answer",
      "Partial credit - please review the concept",
      "Good answer covering key points",
      "Partial answer, missing some key concepts",
      "Answer missing most key concepts",
      "Unable to grade automatically" }

\* C5: a failure of the generative model while a question is graded never
\* aborts grade_quiz: the question (short-answer or numerical outside the
\* tolerance) gets an entry scored by a local fallback, no exception leaves
\* from a question that consulted the semantic grader, and a result has an
\* entry for every question.
C5_OracleFailureIsRecovered ==
    /\ \A k \in 1 .. Len(oracle_calls) :
         ~oracle_calls[k].api.ok =>
            /\ Position(oracle_calls[k].q_id) <= Len(breakdown)
            /\ breakdown[Position(oracle_calls[k].q_id)].feedback.msg
                 \in LocalFallbackMessages
            /\ InUnit(graded[Position(oracle_calls[k].q_id)].score)
    /\ g_pc = "raised" => ~CalledFor(idx)
    /\ g_pc = "done" => Len(result.breakdown) = Len(questions)

\* a result over a numerical and a short-answer question, the model having
\* failed for both
C5_Witness ==
    /\ g_pc = "done"
    /\ Len(oracle_calls) = 2
    /\ ~oracle_calls[1].api.ok
    /\ ~oracle_calls[2].api.ok
    /\ oracle_calls[1].question_type = "numerical"
    /\ oracle_calls[2].question_type = "short"
    /\ Len(result.breakdown) = 2

\* C6: grade_quiz returns a result and raises no exception, whatever the
\* answers map holds for each question (nothing, an empty string, an
\* integer, a letter, a string, a number).
C6_NeverRaises == g_pc # "raised"

\* C7: a question whose q_id is absent from the answers map is not the
\* cause of an exception, its entry has score 0.0 and is_correct = false,
\* and the semantic grader is not called for it.
C7_MissingAnswerScoresZero ==
    /\ \A i \in 1 .. Len(breakdown) :
         ~Answered(i) =>
            /\ breakdown[i].score = Zero
            /\ graded[i].score = Zero
            /\ ~breakdown[i].is_correct
            /\ ~CalledFor(i)
    /\ g_pc = "raised" => Answered(idx) /\ ~CalledFor(idx)
    /\ \A k \in 1 .. Len(oracle_calls) :
         oracle_calls[k].q_id \in DOMAIN answers

\* a result over an unanswered short-answer question and an unanswered
\* numerical question
C7_Witness ==
    /\ g_pc = "done"
    /\ Len(result.breakdown) = 2
    /\ DOMAIN answers = { }
    /\ { questions[1].type, questions[2].type } = { "short", "numerical" }
    /\ result.total_score = Zero

\* C10: every breakdown entry has 0 <= score <= max_score, max_score being
\* the points of the question (the points are positive and the semantic
\* grader returns scores in [0,1]).
C10_EntryScoreWithinMax ==
    \A i \in 1 .. Len(breakdown) :
        /\ breakdown[i].max_score = PointsOf(questions[i])
        /\ RLt(Zero, breakdown[i].max_score)
        /\ RLe(Zero, breakdown[i].score)
        /\ RLe(breakdown[i].score, breakdown[i].max_score)

\* entries for which the model replied with a score above 1 and with a score
\* below 0, on questions worth other than 1 point
C10_Witness ==
    /\ g_pc = "done"
    /\ Len(oracle_calls) = 2
    /\ oracle_calls[1].api.ok /\ RLt(One, oracle_calls[1].api.score)
    /\ oracle_calls[2].api.ok /\ RLt(oracle_calls[2].api.score, Zero)
    /\ \A i \in 1 .. 2 : PointsOf(questions[i]) # One
    /\ breakdown[1].score = breakdown[1].max_score
    /\ breakdown[2].score = Zero

(***************************************************************************)
(* Properties of the per-kind graders and of repeated grading.             *)
(***************************************************************************)
\* the calls of the semantic grader made for question i
CallsFor(i) ==
    { k \in 1 .. Len(oracle_calls) : oracle_calls[k].q_id = questions[i].q_id }

TheCallFor(i) == oracle_calls[CHOOSE k \in CallsFor(i) : TRUE]

\* what grade_answer returned to the call made for question i
OracleReturned(i) ==
    GradeAnswer(TheCallFor(i).correct_answer, TheCallFor(i).user_answer,
                TheCallFor(i).api)

SubmissionOf(i) == AnswerGet(answers, questions[i].q_id)

\* the question the call in progress is at, graded or raising
Reached(i) ==
    \/ i <= Len(graded)
    \/ g_pc = "raised" /\ i = idx

\* C11: grading the same (questions, answers) pair a second time, the
\* semantic grader replying to the same arguments as it did the first time,
\* returns the result of the first grading: the same total_score, breakdown,
\* weak_topics and feedback, the topics of the feedback in the same order.
C11_SameResultTwice ==
    ( /\ g_pc = "done"
      /\ previous.valid
      /\ DeterministicOracle(previous.calls \o oracle_calls) )
    => /\ result.total_score = previous.result.total_score
       /\ result.breakdown = previous.result.breakdown
       /\ result.weak_topics = previous.result.weak_topics
       /\ result.feedback = previous.result.feedback

\* |s - r| <= |0.02 * r|, as 50 * |s - r| <= |r|
InTolerance(r, s) == RLe(RMul(RInt(50), RAbs(RSub(s, r))), RAbs(r))

BothParse(i) ==
    /\ questions[i].type = "numerical"
    /\ PyFloatOf(questions[i].correct_answer).ok
    /\ PyFloatOf(SubmissionOf(i)).ok

\* C12: a numerical question whose reference r and submission s both parse
\* is never the cause of an exception; if r - |0.02 r| <= s <= r + |0.02 r|
\* (bounds included, also for negative r) its score is 1.0, is_correct is
\* true and the semantic grader is not called; otherwise the semantic grader
\* is called exactly once for it, the score and feedback it returns are
\* those of the question, and is_correct = (that score >= 0.7).
C12_NumericalTolerance ==
    \A i \in 1 .. Len(questions) :
        (Reached(i) /\ BothParse(i)) =>
            /\ i <= Len(graded)
            /\ IF InTolerance(PyFloatOf(questions[i].correct_answer).v,
                              PyFloatOf(SubmissionOf(i)).v)
               THEN /\ graded[i].score = One
                    /\ graded[i].is_correct
                    /\ CallsFor(i) = { }
               ELSE /\ Cardinality(CallsFor(i)) = 1
                    /\ TheCallFor(i).question_type = "numerical"
                    /\ ~OracleReturned(i).raised
                    /\ graded[i].score = OracleReturned(i).score
                    /\ graded[i].feedback = OracleReturned(i).feedback
                    /\ graded[i].is_correct
                         <=> RGe(OracleReturned(i).score, Rat(7, 10))

\* a negative reference answered on the lower bound of its tolerance:
\* -51 for -50, accepted without a call of the semantic grader
C12_Witness ==
    /\ g_pc = "done"
    /\ Len(questions) = 1
    /\ BothParse(1)
    /\ PyFloatOf(questions[1].correct_answer).v = RInt(-50)
    /\ PyFloatOf(SubmissionOf(1)).v = RInt(-51)
    /\ graded[1].score = One
    /\ graded[1].is_correct
    /\ oracle_calls = << >>

IntegerReferenceMcq(i) ==
    /\ questions[i].type = "mcq"
    /\ questions[i].correct_answer.t = "int"

\* the index of an upper-case letter A-D, or the submission itself
UpperCaseIndex(v) ==
    CASE v = PyString(<< "A" >>) -> PyInt(0)
      [] v = PyString(<< "B" >>) -> PyInt(1)
      [] v = PyString(<< "C" >>) -> PyInt(2)
      [] v = PyString(<< "D" >>) -> PyInt(3)
      [] OTHER -> v

\* the index of a letter A-D or a-d, or the submission itself
EitherCaseIndex(v) ==
    CASE v = PyString(<< "a" >>) -> PyInt(0)
      [] v = PyString(<< "b" >>) -> PyInt(1)
      [] v = PyString(<< "c" >>) -> PyInt(2)
      [] v = PyString(<< "d" >>) -> PyInt(3)
      [] OTHER -> UpperCaseIndex(v)

\* C13 as stated: for a multiple-choice question with integer reference c,
\* a submitted letter A-D is mapped to 0..3 and any other submission is
\* left as it is; the score is 1.0 with is_correct = true if the mapped
\* submission equals c, and 0.0 with is_correct = false otherwise; the
\* semantic grader is not called.
C13_LettersAToD ==
    \A i \in 1 .. Len(questions) :
        (Reached(i) /\ IntegerReferenceMcq(i)) =>
            /\ i <= Len(graded)
            /\ CallsFor(i) = { }
            /\ graded[i].is_correct <=> graded[i].score = One
            /\ IF PyEq(UpperCaseIndex(SubmissionOf(i)),
                       questions[i].correct_answer)
               THEN graded[i].score = One
               ELSE graded[i].score = Zero

\* C13 amended: the letters a-d are mapped like A-D (a or A = 0, ..., d or D
\* = 3); with that mapping the score is 1.0 with is_correct = true if the
\* mapped submission equals c and 0.0 with is_correct = false otherwise,
\* is_correct holds exactly when the score is 1.0, and the semantic grader
\* is not called.
C13_LettersInEitherCase ==
    \A i \in 1 .. Len(questions) :
        (Reached(i) /\ IntegerReferenceMcq(i)) =>
            /\ i <= Len(graded)
            /\ CallsFor(i) = { }
            /\ graded[i].is_correct <=> graded[i].score = One
            /\ IF PyEq(EitherCaseIndex(SubmissionOf(i)),
                       questions[i].correct_answer)
               THEN graded[i].score = One /\ graded[i].is_correct
               ELSE graded[i].score = Zero /\ ~graded[i].is_correct

\* the submission "b" to a question with reference index 1, graded correct
C13_Witness ==
    /\ g_pc = "done"
    /\ Len(questions) = 1
    /\ IntegerReferenceMcq(1)
    /\ questions[1].correct_answer = PyInt(1)
    /\ SubmissionOf(1) = PyString(<< "b" >>)
    /\ graded[1].score = One
    /\ graded[1].is_correct

\* the submission is a string that is empty or only whitespace, or is missing
BlankSubmission(i) ==
    \/ ~Answered(i)
    \/ /\ SubmissionOf(i).t = "str"
       /\ \A k \in 1 .. Len(SubmissionOf(i).s) : SubmissionOf(i).s[k] = " "

\* C14: a short-answer question is never the cause of an exception; an
\* empty or whitespace-only submission gives score 0.0, is_correct = false
\* and no call of the semantic grader; any other submission causes exactly
\* one call, with the question text, the reference answer, the submission
\* and the topic, and when the model replied to that call the raw score is
\* the returned score and is_correct = (that score >= 0.7).
C14_ShortAnswerLaw ==
    \A i \in 1 .. Len(questions) :
        (Reached(i) /\ questions[i].type = "short") =>
            /\ i <= Len(graded)
            /\ IF BlankSubmission(i)
               THEN /\ graded[i].score = Zero
                    /\ ~graded[i].is_correct
                    /\ CallsFor(i) = { }
               ELSE /\ Cardinality(CallsFor(i)) = 1
                    /\ TheCallFor(i).question = questions[i].question
                    /\ TheCallFor(i).correct_answer = questions[i].correct_answer
                    /\ TheCallFor(i).user_answer = SubmissionOf(i)
                    /\ TheCallFor(i).topic = TopicOf(questions[i])
                    /\ TheCallFor(i).api.ok =>
                         /\ graded[i].score = OracleReturned(i).score
                         /\ graded[i].is_correct
                              <=> RGe(OracleReturned(i).score, Rat(7, 10))

NonEmptySubmission(i) ==
    /\ Answered(i)
    /\ StrStrip(PyStr(SubmissionOf(i))) # << >>

InvalidFormatOutcome(i) ==
    /\ i <= Len(graded)
    /\ graded[i].feedback.msg = "Invalid numerical format. Expected: "

\* C15 as stated: a numerical question with a non-empty submission that does
\* not parse as a number gets score 0.0, is_correct = false, the feedback
\* stating the expected format, no call of the semantic grader and no
\* exception; and the invalid-format outcome is produced for that reason
\* only.
C15_InvalidFormatForSubmissionOnly ==
    \A i \in 1 .. Len(questions) :
        (Reached(i) /\ questions[i].type = "numerical") =>
            /\ i <= Len(graded)
            /\ InvalidFormatOutcome(i)
                 <=> (NonEmptySubmission(i) /\ ~PyFloatOf(SubmissionOf(i)).ok)
            /\ InvalidFormatOutcome(i) =>
                 /\ graded[i].score = Zero
                 /\ ~graded[i].is_correct
                 /\ CallsFor(i) = { }

\* C15 amended: a numerical question is never the cause of an exception; it
\* gets the invalid-format outcome (score 0.0, is_correct = false, feedback
\* stating the reference as the expected format, no call of the semantic
\* grader) exactly when the submission is non-empty and the submission or
\* the reference answer does not parse as a number.
C15_InvalidFormatForEitherNumber ==
    \A i \in 1 .. Len(questions) :
        (Reached(i) /\ questions[i].type = "numerical") =>
            /\ i <= Len(graded)
            /\ InvalidFormatOutcome(i)
                 <=> /\ NonEmptySubmission(i)
                     /\ \/ ~PyFloatOf(SubmissionOf(i)).ok
                        \/ ~PyFloatOf(questions[i].correct_answer).ok
            /\ InvalidFormatOutcome(i) =>
                 /\ graded[i].score = Zero
                 /\ ~graded[i].is_correct
                 /\ graded[i].feedback.arg = PyStr(questions[i].correct_answer)
                 /\ CallsFor(i) = { }

\* the submission "abc" to a numerical question whose reference is 100
C15_Witness ==
    /\ g_pc = "done"
    /\ Len(questions) = 1
    /\ questions[1].type = "numerical"
    /\ PyFloatOf(questions[1].correct_answer).v = RInt(100)
    /\ PyFloatOf(questions[1].correct_answer).ok
    /\ SubmissionOf(1) = PyString(<< "a", "b", "c" >>)
    /\ InvalidFormatOutcome(1)
    /\ result.total_score = Zero
    /\ oracle_calls = << >>

UnknownKind(i) == questions[i].type \notin { "mcq", "short", "numerical" }

RECURSIVE SumOfPoints(_)
SumOfPoints(n) ==
    IF n = 0 THEN Zero ELSE RAdd(SumOfPoints(n - 1), PointsOf(questions[n]))

\* the scores recorded for topic T
ScoresOfTopic(T) ==
    IF \E k \in 1 .. Len(topic_performance) : topic_performance[k].topic = T
    THEN topic_performance[CHOOSE k \in 1 .. Len(topic_performance) :
                             topic_performance[k].topic = T].scores
    ELSE << >>

\* C16: a question whose kind is none of mcq, short, numerical is not the
\* cause of an exception and gets score 0.0, the feedback 'Unknown question
\* type' and is_correct = false without a call of the semantic grader; it
\* has its entry in the breakdown, its points are in the maximum score and
\* its 0.0 is among the scores of its topic; the questions after it are
\* graded as they are without it.
C16_UnknownKindScoresZero ==
    /\ \A i \in 1 .. Len(questions) :
         (Reached(i) /\ UnknownKind(i)) =>
            /\ i <= Len(graded)
            /\ graded[i].score = Zero
            /\ graded[i].feedback = Feedback("Unknown question type", << >>)
            /\ ~graded[i].is_correct
            /\ CallsFor(i) = { }
            /\ breakdown[i].q_id = questions[i].q_id
            /\ breakdown[i].score = Zero
            /\ breakdown[i].max_score = PointsOf(questions[i])
    /\ g_pc = "grading" =>
         /\ max_score = SumOfPoints(Len(graded))
         /\ \A T \in { TopicOf(questions[i]) : i \in 1 .. Len(graded) } :
              /\ Len(ScoresOfTopic(T))
                   = Cardinality({ i \in 1 .. Len(graded) :
                                     TopicOf(questions[i]) = T })
              /\ RSum(ScoresOfTopic(T))
                   = SumOfRawScores({ i \in 1 .. Len(graded) :
                                        TopicOf(questions[i]) = T })
    /\ \A i, j \in 1 .. Len(graded) :
         (UnknownKind(i) /\ i < j /\ ~UnknownKind(j)) =>
            /\ graded[j].score
                 = GradeByType(questions[j], SubmissionOf(j), ApiMet(j)).score
            /\ breakdown[j].q_id = questions[j].q_id

\* a result over a question of unknown kind followed by a short-answer
\* question that the semantic grader scored above 0
C16_Witness ==
    /\ g_pc = "done"
    /\ Len(questions) = 2
    /\ UnknownKind(1)
    /\ questions[2].type = "short"
    /\ CalledFor(2)
    /\ graded[1].score = Zero
    /\ RLt(Zero, graded[2].score)
    /\ result.total_score = RMul(graded[2].score, PointsOf(questions[2]))
    /\ Len(result.breakdown) = 2

\* the keywords of a reference answer: the words longer than 3 characters
\* of the lower-cased reference
KeywordsOf(i) ==
    { w \in SeqRange(StrSplit(StrLower(questions[i].correct_answer.s))) :
        Len(w) > 3 }

KeywordsFound(i) ==
    { w \in KeywordsOf(i) : StrContains(StrLower(SubmissionOf(i).s), w) }

\* C19: when the call made for a short-answer question met a failure of the
\* model, the question is graded by keyword overlap: score = keywords found
\* in the lower-cased submission / keywords, is_correct = (score >= 0.7),
\* feedback 'good' for score >= 0.7, 'partial' for 0.4 <= score < 0.7,
\* 'missing most' below; with no keyword, score 0.5, is_correct = false and
\* feedback 'Unable to grade automatically'.
C19_KeywordFallbackOnFailure ==
    \A i \in 1 .. Len(graded) :
        ( /\ questions[i].type = "short"
          /\ CallsFor(i) # { }
          /\ ~TheCallFor(i).api.ok )
        => IF KeywordsOf(i) = { }
           THEN /\ graded[i].score = Rat(1, 2)
                /\ ~graded[i].is_correct
                /\ graded[i].feedback.msg = "Unable to grade automatically"
           ELSE /\ graded[i].score
                     = Rat(Cardinality(KeywordsFound(i)),
                           Cardinality(KeywordsOf(i)))
                /\ graded[i].is_correct <=> RGe(graded[i].score, Rat(7, 10))
                /\ graded[i].feedback.msg
                     = IF RGe(graded[i].score, Rat(7, 10))
                       THEN "Good answer covering key points"
                       ELSE IF RGe(graded[i].score, Rat(4, 10))
                       THEN "Partial answer, missing some key concepts"
                       ELSE "Answer missing most key concepts"

\* C20: the time score is min(time_spent / expected_time, 1.0) with
\* expected_time = estimated_pages * 60, and expected_time = 600 when
\* estimated_pages * 60 is 0; a call with estimated_pages = 0 returns.
C20_TimeScoreLaw ==
    completion.called =>
        completion.time_score
          = IF completion.estimated_pages * 60 = 0
            THEN RMin(Rat(completion.time_spent, 600), One)
            ELSE RMin(Rat(completion.time_spent,
                          completion.estimated_pages * 60), One)

\* a call with estimated_pages = 0 and 300 seconds: the time score is 0.5
C20_Witness ==
    /\ completion.called
    /\ completion.estimated_pages = 0
    /\ completion.time_spent = 300
    /\ completion.time_score = Rat(1, 2)

(***************************************************************************)
(* Properties of the rate limiter.                                         *)
(***************************************************************************)
\* the number of timestamps of log in the window (from, to]
Within(log, from, to) ==
    Cardinality({ i \in 1 .. Len(log) : log[i] > from /\ log[i] <= to })

LastChecked == rl_last.valid /\ rl_last.checked

\* the accepted requests of the client of the last request, before it
PriorAccepted ==
    IF rl_last.status = 200
    THEN SubSeq(rl_accepted[rl_last.client], 1,
                Len(rl_accepted[rl_last.client]) - 1)
    ELSE rl_accepted[rl_last.client]

\* the timestamps a tracker holds for a client
TrackedTimes(tracker, c) ==
    IF c \in DOMAIN tracker
    THEN [ i \in 1 .. Len(tracker[c]) |-> tracker[c][i].ts ]
    ELSE << >>

IsSuffix(s, log) ==
    /\ Len(s) <= Len(log)
    /\ s = SubSeq(log, Len(log) - Len(s) + 1, Len(log))

\* the trackers hold accepted requests only, one entry of count 1 for each
OnlyAcceptedRecorded ==
    \A c \in Clients :
        /\ IsSuffix(TrackedTimes(minute_tracker, c), rl_accepted[c])
        /\ IsSuffix(TrackedTimes(hour_tracker, c), rl_accepted[c])
        /\ c \in DOMAIN minute_tracker =>
             RequestCount(minute_tracker[c]) = Len(minute_tracker[c])
        /\ c \in DOMAIN hour_tracker =>
             RequestCount(hour_tracker[c]) = Len(hour_tracker[c])

\* no client has more than the limit of accepted requests in any window
\* (t - 60, t], or (t - 3600, t]
WindowsBounded ==
    \A c \in Clients :
        \A i \in 1 .. Len(rl_accepted[c]) :
            /\ Within(rl_accepted[c], rl_accepted[c][i] - MINUTE_WINDOW,
                      rl_accepted[c][i]) <= RequestsPerMinute
            /\ Within(rl_accepted[c], rl_accepted[c][i] - HOUR_WINDOW,
                      rl_accepted[c][i]) <= RequestsPerHour

\* C17 as stated: a checked request at time t is accepted iff fewer than
\* requests_per_minute accepted requests of its client lie in the 60 seconds
\* before t and fewer than requests_per_hour in the 3600 seconds before t
\* (other clients do not count); so no client has more than
\* requests_per_minute accepted requests in a 60-second window nor more than
\* requests_per_hour in a 3600-second window; rejected requests are not
\* recorded.
C17_SlidingWindowLaw ==
    /\ LastChecked =>
         ( rl_last.status = 200
           <=> /\ Within(PriorAccepted, rl_last.t - MINUTE_WINDOW, rl_last.t)
                    < RequestsPerMinute
               /\ Within(PriorAccepted, rl_last.t - HOUR_WINDOW, rl_last.t)
                    < RequestsPerHour )
    /\ WindowsBounded
    /\ OnlyAcceptedRecorded

\* C17 amended: the windows are measured from the clock as read by the two
\* cleanups (t_minute and t_hour, at or after the time t recorded for the
\* request): the request is accepted iff fewer than requests_per_minute
\* accepted requests of its client have a timestamp after t_minute - 60 and
\* fewer than requests_per_hour after t_hour - 3600; rejected requests are
\* not recorded and other clients do not count; no client exceeds the limits
\* in a 60-second or 3600-second window as long as no check saw the clock
\* advance between its reads.
C17_WindowsFromCleanupReads ==
    /\ LastChecked =>
         /\ rl_last.t <= rl_last.t_minute /\ rl_last.t_minute <= rl_last.t_hour
         /\ rl_last.status \in { 200, 429 }
         /\ rl_last.status = 200
              <=> /\ Within(PriorAccepted, rl_last.t_minute - MINUTE_WINDOW,
                            rl_last.t) < RequestsPerMinute
                  /\ Within(PriorAccepted, rl_last.t_hour - HOUR_WINDOW,
                            rl_last.t) < RequestsPerHour
    /\ OnlyAcceptedRecorded
    /\ ~rl_skewed => WindowsBounded

\* a request accepted although requests_per_minute accepted requests of its
\* client lie in the 60 seconds before it: the cleanup read the clock later
C17_Witness ==
    /\ LastChecked
    /\ rl_last.status = 200
    /\ rl_last.t < rl_last.t_minute
    /\ Within(PriorAccepted, rl_last.t - MINUTE_WINDOW, rl_last.t)
         >= RequestsPerMinute
    /\ Len(rl_accepted[rl_last.client]) > RequestsPerMinute

(***************************************************************************)
(* Properties of quiz generation.                                          *)
(***************************************************************************)
QuizzesOfVariant(h) == { i \in 1 .. Len(q_db) : q_db[i].variant_hash = h }

\* C18: once a request for a parameter tuple has succeeded, every later
\* request for the same tuple succeeds with the quiz_id and the questions of
\* that first response and without a call of the quiz generator, whether
\* Redis answers or not; and the quizzes table never holds two quizzes with
\* the same variant_hash.
C18_SameQuizOnceServed ==
    /\ (q_last.valid /\ q_last.served_before) =>
          /\ q_last.status = 201
          /\ q_last.quiz_id = q_first[q_last.params].quiz_id
          /\ q_last.questions = q_first[q_last.params].questions
          /\ ~q_last.generated
    /\ \A i, j \in 1 .. Len(q_db) :
          q_db[i].variant_hash = q_db[j].variant_hash => i = j
    /\ \A p \in StoredParams :
          q_first[p].served =>
              /\ Cardinality(QuizzesOfVariant(GenerateVariantHash(p))) = 1
              /\ \E i \in QuizzesOfVariant(GenerateVariantHash(p)) :
                    /\ q_db[i].id = q_first[p].quiz_id
                    /\ FromJsonb(q_db[i].questions) = q_first[p].questions

\* a request served again, Redis not answering, after the generator was
\* called for other parameters in between
C18_Witness ==
    /\ q_last.valid
    /\ q_last.served_before
    /\ ~q_last.redis_up
    /\ q_last.status = 201
    /\ Len(q_db) >= 2
    /\ q_last.quiz_id = q_db[1].id
    /\ q_last.questions # << >>
    /\ q_gen_calls = Len(q_db)

(***************************************************************************)
(* Further properties of the completion estimator.                         *)
(***************************************************************************)
\* C21: the interaction score is 0.0 when time_spent is 0, whatever the
\* count; otherwise it is min(count / max(time_spent / 120, 1), 1.0): the
\* divisor is at least 1, so nothing is divided by zero, and in a session
\* shorter than 120 seconds one interaction already gives 1.0.
C21_InteractionScoreLaw ==
    completion.called =>
        /\ completion.time_spent = 0 => completion.interaction_score = Zero
        /\ (completion.time_spent # 0 /\ completion.time_spent <= 120) =>
              completion.interaction_score
                = (IF completion.selections >= 1 THEN One
                   ELSE RInt(completion.selections))
        /\ completion.time_spent > 120 =>
              completion.interaction_score
                = (IF completion.selections * 120 >= completion.time_spent
                   THEN One
                   ELSE Rat(completion.selections * 120, completion.time_spent))
        /\ (completion.time_spent > 0 /\ completion.time_spent < 120
            /\ completion.selections >= 1) =>
              completion.interaction_score = One

\* a session of 60 seconds with a single interaction: the score is 1.0
C21_Witness ==
    /\ completion.called
    /\ completion.time_spent = 60
    /\ completion.selections = 1
    /\ completion.interaction_score = One

\* C22: for every scroll_pct in [0,100] the scroll score is scroll_pct / 100
\* (0 gives 0.0 and 100 gives 1.0); the cap at 1.0 changes nothing there.
C22_ScrollScoreIsFraction ==
    (completion.called /\ RLe(Zero, completion.scroll_pct)
     /\ RLe(completion.scroll_pct, RInt(100))) =>
        /\ completion.scroll_score[1] * completion.scroll_pct[2] * 100
             = completion.scroll_pct[1] * completion.scroll_score[2]
        /\ completion.scroll_pct = Zero => completion.scroll_score = Zero
        /\ completion.scroll_pct = RInt(100) => completion.scroll_score = One

\* a call with scroll_pct = 37.5: the scroll score is 0.375
C22_Witness ==
    /\ completion.called
    /\ completion.scroll_pct = Rat(75, 2)
    /\ completion.scroll_score = Rat(3, 8)

\* the three conditions of the upper boundary case of C23
FullTelemetry ==
    /\ completion.time_spent
         >= completion.estimated_pages * EXPECTED_TIME_PER_PAGE
    /\ completion.scroll_pct = RInt(100)
    /\ completion.selections >= 1
    /\ completion.selections * 120 >= completion.time_spent

FullVerdict ==
    /\ completion.time_score = One
    /\ completion.scroll_score = One
    /\ completion.interaction_score = One
    /\ completion.composite_score = One
    /\ completion.is_completed

ZeroVerdict ==
    /\ completion.composite_score = Zero
    /\ ~completion.is_completed

\* C23 as stated: whenever time_spent >= estimated_pages * 60, scroll_pct =
\* 100 and the count is >= max(time_spent / 120, 1), the three scores and the
\* composite are 1.0 and is_completed is true; whenever time_spent = 0 and
\* scroll_pct = 0 the composite is 0.0 and is_completed is false.
C23_BoundaryVerdicts ==
    completion.called =>
        /\ FullTelemetry => FullVerdict
        /\ (completion.time_spent = 0 /\ completion.scroll_pct = Zero) =>
              ZeroVerdict

\* C23 amended: the upper boundary case needs estimated_pages >= 1 as well;
\* with estimated_pages <= 0 the time score is measured against 600 seconds
\* or against a negative time and need not be 1.0.
C23_BoundaryVerdictsPositivePages ==
    completion.called =>
        /\ (FullTelemetry /\ completion.estimated_pages >= 1) => FullVerdict
        /\ (completion.time_spent = 0 /\ completion.scroll_pct = Zero) =>
              ZeroVerdict

\* the call of the example: 600 seconds, 100 percent, 5 interactions, 10 pages
C23_Witness ==
    /\ completion.called
    /\ completion.time_spent = 600
    /\ completion.scroll_pct = RInt(100)
    /\ completion.selections = 5
    /\ completion.estimated_pages = 10
    /\ FullVerdict

\* the composite score of the call with time_spent replaced by t
CompositeAt(t) ==
    CompletionResult(t, completion.scroll_pct, completion.selections,
                     completion.estimated_pages).composite_score

CompletedAt(t) ==
    CompletionResult(t, completion.scroll_pct, completion.selections,
                     completion.estimated_pages).is_completed

LongerSessions == { t \in TimeValues : t >= completion.time_spent }

\* C28 as stated: with scroll_pct, the count and estimated_pages fixed, a
\* larger time_spent never gives a smaller composite score, and never turns
\* is_completed from true to false.
C28_MonotoneInTime ==
    (completion.called /\ ValidTelemetry) =>
        \A t \in LongerSessions :
            /\ RLe(completion.composite_score, CompositeAt(t))
            /\ completion.is_completed => CompletedAt(t)

\* C28 amended: on valid telemetry a larger time_spent never gives a smaller
\* time score, and never gives a smaller composite or turns is_completed
\* from true to false as long as the larger time is at most 120 seconds or the
\* count is 0; beyond 120 seconds the interaction score falls as time grows.
C28_MonotoneUpToTwoMinutes ==
    (completion.called /\ ValidTelemetry) =>
        \A t \in LongerSessions :
            /\ RLe(completion.time_score,
                   CalculateTimeScore(t, completion.estimated_pages))
            /\ (t <= 120 \/ completion.selections = 0) =>
                  /\ RLe(completion.composite_score, CompositeAt(t))
                  /\ completion.is_completed => CompletedAt(t)

\* a call of 60 seconds with interactions, whose composite grows at 120 seconds
C28_Witness ==
    /\ completion.called
    /\ ValidTelemetry
    /\ completion.time_spent = 60
    /\ completion.selections = 2
    /\ completion.estimated_pages = 2
    /\ RLt(completion.composite_score, CompositeAt(120))

(***************************************************************************)
(* Properties of update_progress.                                          *)
(***************************************************************************)
\* the verdict of calculate_completion on the telemetry of a request, with
\* estimated_pages = 10
VerdictOf(request) ==
    CompletionResult(request.time_spent, request.scroll_pct,
                     IF request.selections = << >> THEN 0
                     ELSE request.selections[1],
                     BASELINE_PAGES)

\* C29: after any sequence of update_progress requests for one (user_id,
\* chapter_id), each run to completion, exactly one progress record exists
\* for the pair, and its time_spent, scroll_progress, is_completed and
\* completion_method are those of the most recent request alone, is_completed
\* being the verdict of calculate_completion on the latest telemetry with
\* estimated_pages = 10.
C29_RecordIsLatestRequest ==
    \A u \in Users, c \in ProgressChapters :
        up_latest[u, c].valid =>
            /\ Cardinality(RowsOf(user_progress, u, c)) = 1
            /\ \A i \in RowsOf(user_progress, u, c) :
                  /\ user_progress[i].time_spent = up_latest[u, c].time_spent
                  /\ user_progress[i].scroll_progress
                       = up_latest[u, c].scroll_pct
                  /\ user_progress[i].is_completed
                       = VerdictOf(up_latest[u, c]).is_completed
                  /\ user_progress[i].completion_method
                       = VerdictOf(up_latest[u, c]).method_details

(***************************************************************************)
(* Further properties of the grader.                                       *)
(***************************************************************************)
TierSentences ==
    { "Excellent work! Strong understanding across all topics.",
      "Good performance! You have a solid grasp of the material.",
      "Fair performance. Review the weak areas for improvement.",
      "Needs improvement. Focus on understanding core concepts." }

\* total_score / max_score * 100 >= k, the percentage taken as 0 when
\* max_score is 0
PercentageAtLeast(k) ==
    /\ max_score # Zero
    /\ RGe(RMul(total_score, RInt(100)), RMul(RInt(k), max_score))

TierOfPercentage ==
    IF PercentageAtLeast(90)
    THEN "Excellent work! Strong understanding across all topics."
    ELSE IF PercentageAtLeast(75)
    THEN "Good performance! You have a solid grasp of the material."
    ELSE IF PercentageAtLeast(60)
    THEN "Fair performance. Review the weak areas for improvement."
    ELSE "Needs improvement. Focus on understanding core concepts."

\* C24: the first sentence of the overall feedback is chosen from percentage
\* = total_score / max_score * 100, taken as 0 when max_score is 0:
\* 'excellent' iff >= 90, 'good' iff in [75, 90), 'fair' iff in [60, 75),
\* 'needs improvement' otherwise; exactly one tier sentence is present.
C24_TierOfFeedback ==
    g_pc = "done" =>
        /\ result.feedback # << >>
        /\ result.feedback[1].text = TierOfPercentage
        /\ Cardinality({ i \in 1 .. Len(result.feedback) :
                           result.feedback[i].text \in TierSentences }) = 1

\* a quiz graded at exactly 75 percent: the 'good' sentence
C24_Witness ==
    /\ g_pc = "done"
    /\ max_score # Zero
    /\ RMul(total_score, RInt(100)) = RMul(RInt(75), max_score)
    /\ result.feedback[1].text
         = "Good performance! You have a solid grasp of the material."

IncorrectEntries ==
    { i \in 1 .. Len(result.breakdown) : ~result.breakdown[i].is_correct }

\* C25: the overall feedback is, in this order, the tier sentence, a
\* weak-topics sentence present iff weak_topics is non-empty and listing
\* exactly weak_topics, and a review-topics sentence present iff some
\* breakdown entry has is_correct = false and listing each topic of an
\* incorrect entry exactly once; there is no empty part.
C25_FeedbackParts ==
    g_pc = "done" =>
        /\ result.feedback # << >>
        /\ result.feedback[1].text \in TierSentences
        /\ Len(result.feedback)
             = 1 + (IF result.weak_topics # << >> THEN 1 ELSE 0)
                 + (IF IncorrectEntries # { } THEN 1 ELSE 0)
        /\ result.weak_topics # << >> =>
              result.feedback[2]
                = [ text |-> "Focus on: ", topics |-> result.weak_topics ]
        /\ IncorrectEntries # { } =>
              /\ result.feedback[Len(result.feedback)].text = "Review topics: "
              /\ SeqRange(result.feedback[Len(result.feedback)].topics)
                   = { result.breakdown[i].topic : i \in IncorrectEntries }
              /\ Len(result.feedback[Len(result.feedback)].topics)
                   = Cardinality({ result.breakdown[i].topic :
                                     i \in IncorrectEntries })
        /\ \A i \in 1 .. Len(result.feedback) :
              /\ result.feedback[i].text # ""
              /\ i > 1 => result.feedback[i].topics # << >>

\* a result with all three parts, two incorrect entries sharing one topic
C25_Witness ==
    /\ g_pc = "done"
    /\ Len(result.feedback) = 3
    /\ Cardinality(IncorrectEntries) = 2
    /\ Len(result.feedback[3].topics) = 1
    /\ result.feedback[2].topics = result.feedback[3].topics

\* C26 as stated: for every question kind (multiple-choice, short-answer,
\* numerical), a question whose answer is missing from the submission
\* receives the feedback 'No answer provided'.
C26_MissingAnswerFeedback ==
    \A i \in 1 .. Len(graded) :
        ( /\ questions[i].type \in { "mcq", "short", "numerical" }
          /\ questions[i].q_id \notin DOMAIN answers )
        => graded[i].feedback = Feedback("No answer provided", << >>)

\* the question graded in a quiz of one question is multiple-choice and was
\* answered incorrectly
IncorrectMcqGraded ==
    /\ Len(questions) = 1
    /\ questions[1].type = "mcq"
    /\ Len(graded) = 1
    /\ ~graded[1].is_correct

McqBeingGraded ==
    /\ Len(questions) = 1
    /\ questions[1].type = "mcq"
    /\ g_pc # "idle"

\* the reference index is within the bounds of the options
ReferenceInBounds(question) ==
    /\ question.options.t = "list"
    /\ question.correct_answer.t = "int"
    /\ question.correct_answer.n >= 0
    /\ question.correct_answer.n < Len(question.options.v)

McqFeedbackNamesOption ==
    IncorrectMcqGraded =>
        graded[1].feedback
          = Feedback("Incorrect. Correct answer: ",
                     IF ReferenceInBounds(questions[1])
                     THEN questions[1].options.v[
                              questions[1].correct_answer.n + 1]
                     ELSE << "U", "n", "k", "n", "o", "w", "n" >>)

C30_CorrectIffSeventyPercent ==
    /\ g_pc \in { "grading", "done" } =>
          \A i \in 1 .. Len(graded) :
              /\ graded[i].is_correct <=> RGe(graded[i].score, Rat(7, 10))
              /\ breakdown[i].is_correct = graded[i].is_correct
              /\ InUnit(graded[i].score)
    /\ g_pc = "done" =>
          \A t \in SeqRange(result.weak_topics) :
              /\ \E i \in IncorrectEntries : result.breakdown[i].topic = t
              /\ t \in SeqRange(ReviewOrderOf(result))

\* a weak topic with one correct and one incorrect entry
C30_Witness ==
    /\ g_pc = "done"
    /\ Len(result.breakdown) = 2
    /\ result.breakdown[1].topic = result.breakdown[2].topic
    /\ result.breakdown[1].is_correct
    /\ ~result.breakdown[2].is_correct
    /\ result.weak_topics = << result.breakdown[1].topic >>

====
